---- MODULE Spec2Model ----
(***************************************************************************)
(* A model of snpy, the interactive command-line prompting toolkit.       *)
(*                                                                         *)
(* The class Snpy (src/unnamed/part_000) runs one prompt at a time on top  *)
(* of the terminal port IO (src/src/io.ts).  JavaScript runs handlers to   *)
(* completion: one action of this model is one key event, one timer, or    *)
(* one call made by the session's caller, together with the promise        *)
(* continuations it releases (they run before any other event).            *)
(*                                                                         *)
(* A JavaScript string is a sequence of characters, a character being a    *)
(* one-element TLA+ string; a label that is never taken apart may be one   *)
(* "character" standing for its whole text.  Indices are 0-based as in     *)
(* the source; At reads a sequence the way choices[i] does.                *)
(***************************************************************************)
EXTENDS Integers, Sequences, FiniteSets, TLC

\* ------------------------------------------------------------------ bounds

\* the longest list handed to getVisibleRange by the window specification
MaxItems == 12
\* the longest buffer typed into a text prompt
MaxInput == 2
\* the most entries the multi-select set holds at once
MaxSelected == 3
\* the most directories created during one behaviour
MaxMkdir == 1
\* the number of utility calls in one behaviour of the utility specification
MaxCalls == 2

\* ------------------------------------------------------- program constants

MAX_VISIBLE_ITEMS == 10

SELECT_THIS_PATH == <<"[ SELECT THIS PATH ]">>

SELECT_BACK_PATH == <<".", ".">>

\* ----------------------------------------------------------------- helpers

Max(a, b) == IF a >= b THEN a ELSE b

Min(a, b) == IF a <= b THEN a ELSE b

\* the JavaScript value undefined, where a string was expected
Undefined == <<"(undefined)">>

\* choices[i] of the source: 0-based, undefined outside the sequence
At(seq, i) == IF i >= 0 /\ i < Len(seq) THEN seq[i + 1] ELSE Undefined

\* a || '' of the source for a string or undefined a
OrEmpty(s) == IF s = Undefined \/ s = <<>> THEN <<>> ELSE s

\* ------------------------------------------------- windowed list renderer

\* getVisibleRange centring the cursor with the whole of maxVisible, not its half
GetVisibleRangeNoHalf(items, idx, maxVisible) ==
    LET start0 == Max(0, idx - maxVisible)
        end0   == Min(Len(items), start0 + maxVisible)
        start1 == IF end0 = Len(items) THEN Max(0, end0 - maxVisible) ELSE start0
        end1   == IF start1 = 0 THEN Min(Len(items), maxVisible) ELSE end0
    IN  [start |-> start1, end |-> end1,
         showTop |-> start1 > 0, showBottom |-> end1 < Len(items)]

\* getVisibleRange without the pull-back of start at the end of the list
GetVisibleRangeNoBackfill(items, idx, maxVisible) ==
    LET half   == maxVisible \div 2
        start0 == Max(0, idx - half)
        end0   == Min(Len(items), start0 + maxVisible)
        end1   == IF start0 = 0 THEN Min(Len(items), maxVisible) ELSE end0
    IN  [start |-> start0, end |-> end1,
         showTop |-> start0 > 0, showBottom |-> end1 < Len(items)]

\* getVisibleRange turning pages of maxVisible entries
GetVisibleRangePaged(items, idx, maxVisible) ==
    LET start0 == (idx \div maxVisible) * maxVisible
        end0   == Min(Len(items), start0 + maxVisible)
    IN  [start |-> start0, end |-> end0,
         showTop |-> start0 > 0, showBottom |-> end0 < Len(items)]

GetVisibleRange(items, idx, maxVisible) ==
    LET half   == maxVisible \div 2
        start0 == Max(0, idx - half)
        end0   == Min(Len(items), start0 + maxVisible)
        start1 == IF end0 = Len(items) THEN Max(0, end0 - maxVisible) ELSE start0
        end1   == IF start1 = 0 THEN Min(Len(items), maxVisible) ELSE end0
    IN  [start |-> start1, end |-> end1,
         showTop |-> start1 > 0, showBottom |-> end1 < Len(items)]

\* ------------------------------------------------------------------ strings

\* the characters that occur in the model's strings, in code-unit order
Alphabet ==
    <<" ", ".", "/", "N", "Y", "[ SELECT THIS PATH ]", "a", "b", "c", "n", "r", "y">>

CharRank(c) == CHOOSE i \in 1..Len(Alphabet) : Alphabet[i] = c

\* a < b as JavaScript compares strings: by code units, a proper prefix first
RECURSIVE StrLess(_, _)
StrLess(a, b) ==
    IF b = <<>> THEN FALSE
    ELSE IF a = <<>> THEN TRUE
    ELSE IF Head(a) # Head(b) THEN CharRank(Head(a)) < CharRank(Head(b))
    ELSE StrLess(Tail(a), Tail(b))

\* String.prototype.toLowerCase on the model's characters
LowerChar(c) == IF c = "Y" THEN "y" ELSE IF c = "N" THEN "n" ELSE c

ToLowerCase(s) == [i \in 1..Len(s) |-> LowerChar(s[i])]

\* --------------------------------------------------- path (Node.js, posix)

\* the pieces of p between its separators
RECURSIVE Split(_)
Split(p) ==
    LET at == {i \in 1..Len(p) : p[i] = "/"}
    IN  IF at = {} THEN <<p>>
        ELSE LET i == CHOOSE j \in at : \A k \in at : j <= k
             IN  <<SubSeq(p, 1, i - 1)>> \o Split(SubSeq(p, i + 1, Len(p)))

\* normalizeString: drops empty and '.' segments, resolves '..'
RECURSIVE NormalizeString(_, _, _)
NormalizeString(res, segs, allowAboveRoot) ==
    IF segs = <<>> THEN res
    ELSE LET s == Head(segs)
         IN  IF s = <<>> \/ s = <<".">>
                 THEN NormalizeString(res, Tail(segs), allowAboveRoot)
             ELSE IF s = <<".", ".">>
                 THEN IF res # <<>> /\ res[Len(res)] # <<".", ".">>
                          THEN NormalizeString(SubSeq(res, 1, Len(res) - 1), Tail(segs),
                                               allowAboveRoot)
                      ELSE IF allowAboveRoot
                          THEN NormalizeString(Append(res, s), Tail(segs), allowAboveRoot)
                      ELSE NormalizeString(res, Tail(segs), allowAboveRoot)
             ELSE NormalizeString(Append(res, s), Tail(segs), allowAboveRoot)

\* segments written out with a separator between them
RECURSIVE Unsplit(_)
Unsplit(segs) ==
    IF segs = <<>> THEN <<>>
    ELSE IF Len(segs) = 1 THEN segs[1]
    ELSE segs[1] \o <<"/">> \o Unsplit(Tail(segs))

\* path.normalize
Normalize(p) ==
    IF p = <<>> THEN <<".">>
    ELSE LET isAbsolute        == p[1] = "/"
             trailingSeparator == p[Len(p)] = "/"
             body == Unsplit(NormalizeString(<<>>, Split(p), ~isAbsolute))
         IN  IF body = <<>>
                 THEN IF isAbsolute THEN <<"/">>
                      ELSE IF trailingSeparator THEN <<".", "/">> ELSE <<".">>
             ELSE (IF isAbsolute THEN <<"/">> ELSE <<>>)
                  \o body \o (IF trailingSeparator THEN <<"/">> ELSE <<>>)

\* path.join(a, b)
PathJoin(a, b) ==
    IF a = <<>> /\ b = <<>> THEN <<".">>
    ELSE IF a = <<>> THEN Normalize(b)
    ELSE IF b = <<>> THEN Normalize(a)
    ELSE Normalize(a \o <<"/">> \o b)

\* path.dirname
Dirname(p) ==
    IF p = <<>> THEN <<".">>
    ELSE LET hasRoot == p[1] = "/"
             \* positions (from the second character on) that are not separators
             names == {i \in 2..Len(p) : p[i] # "/"}
             last  == IF names = {} THEN 0
                      ELSE CHOOSE i \in names : \A k \in names : k <= i
             seps  == {i \in 2..(last - 1) : p[i] = "/"}
             cut   == IF seps = {} THEN 0
                      ELSE CHOOSE i \in seps : \A k \in seps : k <= i
         IN  IF cut = 0 THEN (IF hasRoot THEN <<"/">> ELSE <<".">>)
             ELSE IF hasRoot /\ cut = 2 THEN <<"/", "/">>
             ELSE SubSeq(p, 1, cut - 1)

\* --------------------------------------------------------------- state

VARIABLES
    pc,             \* where the session is: idle, awaiting a key, pausing, ...
    option,         \* the option of the run call in flight
    defaultValue,   \* handleInput / handleConfirm: the default shown and used
    currentIndex,   \* the cursor of a list-like prompt
    selectedItems,  \* handleCheckbox: the Set of indices, in insertion order
    input,          \* handleInput / handleConfirm: the buffer
    hasInput,       \* handleInput / handleConfirm: a character was typed
    currentPath,    \* handleDirectory: the directory being browsed
    io,             \* the IO object and the input stream it listens on
    screen,         \* what the last write left on the terminal
    result,         \* what the last run call gave its caller
    dirs,           \* the filesystem: the directories below the working directory
    files,          \* the filesystem: the files and their contents
    mkdirs,         \* how many directories this behaviour has created
    calls,          \* the utility calls made so far, with what each found and did
    displaced       \* the prompt whose handler a later run call took off the stream

vars == <<pc, option, defaultValue, currentIndex, selectedItems, input, hasInput,
          currentPath, io, screen, result, dirs, files, mkdirs, calls, displaced>>

promptVars == <<option, defaultValue, currentIndex, selectedItems, input, hasInput,
                currentPath>>

fsVars == <<dirs, files, mkdirs>>

\* ----------------------------------------------------------- filesystem

\* A path names the sequence of segments left after resolving it against the
\* working directory; <<>> is the working directory itself.
Canon(p) ==
    IF p # <<>> /\ p[1] = "/"
        THEN << <<"/">> >> \o NormalizeString(<<>>, Split(p), FALSE)
    ELSE NormalizeString(<<>>, Split(p), TRUE)

\* the working directory and the directories above it
IsAncestor(c) == \A i \in 1..Len(c) : c[i] = <<".", ".">>

\* directories whose permission bits allow nothing (mode 000)
LockedDirs == { << <<"c">> >> }

\* directories that may be listed and entered but not written to (mode 555)
ReadOnlyDirs == { << <<"r">> >> }

\* an entry may be made in the directory c
Writable(c) == c \notin LockedDirs /\ c \notin ReadOnlyDirs

IsDir(ds, c) == IsAncestor(c) \/ c \in ds

\* every directory on the way to c may be searched
Reachable(c) == \A k \in 0..(Len(c) - 1) : SubSeq(c, 1, k) \notin LockedDirs

\* fs.existsSync
ExistsSync(ds, fl, p) ==
    LET c == Canon(p)
    IN  /\ Reachable(c)
        /\ \/ IsDir(ds, c)
           \/ c \in DOMAIN fl /\ p[Len(p)] # "/"

\* fs.mkdirSync succeeds (it throws otherwise)
MkdirOk(ds, fl, p) ==
    LET c == Canon(p)
    IN  /\ c # <<>>
        /\ ~IsDir(ds, c)
        /\ c \notin DOMAIN fl
        /\ IsDir(ds, SubSeq(c, 1, Len(c) - 1))
        /\ Reachable(c)
        /\ Writable(SubSeq(c, 1, Len(c) - 1))

\* fs.writeFileSync succeeds (it throws otherwise)
WriteOk(ds, fl, p) ==
    LET c == Canon(p)
    IN  /\ c # <<>>
        /\ p[Len(p)] # "/"
        /\ ~IsDir(ds, c)
        /\ IsDir(ds, SubSeq(c, 1, Len(c) - 1))
        /\ Reachable(c)
        /\ Writable(SubSeq(c, 1, Len(c) - 1))

\* fs.readdirSync succeeds (it throws otherwise)
ReaddirOk(ds, p) ==
    LET c == Canon(p)
    IN  IsDir(ds, c) /\ Reachable(c) /\ c \notin LockedDirs

\* a set of names as a sequence, in the order the listing returns them
RECURSIVE Listing(_)
Listing(names) ==
    IF names = {} THEN <<>>
    ELSE LET n == CHOOSE x \in names : \A y \in names : y = x \/ StrLess(x, y)
         IN  <<n>> \o Listing(names \ {n})

\* Snpy.getDirectories: the names of the subdirectories of source
GetDirectories(ds, source) ==
    LET c == Canon(source)
    IN  Listing({d[Len(d)] : d \in {e \in ds : Len(e) = Len(c) + 1
                                               /\ SubSeq(e, 1, Len(c)) = c}})

\* ------------------------------------------------------- the terminal port

\* new IO(): setupKeyPress puts the input stream in raw mode
NewIO ==
    [hideInput |-> FALSE, keyPressHandler |-> "none", listeners |-> <<>>,
     rawMode |-> TRUE, closed |-> 0]

\* a sequence without its first occurrence of x
RECURSIVE Without(_, _)
Without(seq, x) ==
    IF seq = <<>> THEN <<>>
    ELSE IF Head(seq) = x THEN Tail(seq)
    ELSE <<Head(seq)>> \o Without(Tail(seq), x)

\* removeKeyPressHandler forgetting the handler but leaving it on the stream
RemoveKeyPressHandlerLeavesListener(o) == [o EXCEPT !.keyPressHandler = "none"]

\* removeKeyPressHandler doing nothing
RemoveKeyPressHandlerNoop(o) == o

\* IO.removeKeyPressHandler
RemoveKeyPressHandler(o) ==
    IF o.keyPressHandler # "none"
        THEN [o EXCEPT !.listeners = Without(@, o.keyPressHandler),
                       !.keyPressHandler = "none"]
    ELSE o

\* onKeyPress keeping the wrapper without putting it on the input stream
OnKeyPressForgets(o, handler) ==
    [RemoveKeyPressHandler(o) EXCEPT !.keyPressHandler = handler]

\* IO.onKeyPress: handler names the prompt whose handler is wrapped
OnKeyPress(o, handler) ==
    LET r == RemoveKeyPressHandler(o)
    IN  [r EXCEPT !.keyPressHandler = handler, !.listeners = Append(@, handler)]

\* setRawMode switching raw mode on whatever it is asked
SetRawModeAlwaysOn(o, mode) == [o EXCEPT !.rawMode = TRUE, !.hideInput = TRUE]

\* setRawMode never switching raw mode back on
SetRawModeNoRestore(o, mode) ==
    IF mode THEN o ELSE [o EXCEPT !.rawMode = FALSE, !.hideInput = FALSE]

\* IO.setRawMode
SetRawMode(o, mode) == [o EXCEPT !.rawMode = mode, !.hideInput = mode]

\* IO.clear
Cleared == [tag |-> "clear"]

\* Snpy.logError: the text in red, then a new line
LogError(text) == [tag |-> "error", text |-> text]

\* render of the list-like prompts: the window drawn and the entries highlighted
Render(choices, idx) ==
    LET r == GetVisibleRange(choices, idx, MAX_VISIBLE_ITEMS)
    IN  [tag |-> "list", start |-> r.start, end |-> r.end,
         showTop |-> r.showTop, showBottom |-> r.showBottom,
         highlighted |-> {i \in r.start..(r.end - 1) : i = idx}]

\* ------------------------------------------------------------- utilities

EmptyFiles == [c \in {} |-> <<>>]

NoValue == [type |-> "none"]

StringValue(s) == [type |-> "string", value |-> s]

BooleanValue(b) == [type |-> "boolean", value |-> b]

\* makeFolder without the existsSync guard
MakeFolderUnguarded(ds, fl, parent, folderName) ==
    LET newPath == PathJoin(parent, folderName)
    IN  IF MkdirOk(ds, fl, newPath)
            THEN [dirs |-> ds \cup {Canon(newPath)}, ret |-> StringValue(newPath),
                  threw |-> FALSE, logged |-> "none"]
        ELSE [dirs |-> ds, ret |-> NoValue, threw |-> TRUE, logged |-> "none"]

\* Snpy.makeFolder: what it leaves, returns and logs, or that it threw
MakeFolder(ds, fl, parent, folderName) ==
    LET newPath == PathJoin(parent, folderName)
    IN  IF ExistsSync(ds, fl, newPath)
            THEN [dirs |-> ds, ret |-> BooleanValue(FALSE), threw |-> FALSE,
                  logged |-> "[Snpy-Error] Folder already exists!"]
        ELSE IF MkdirOk(ds, fl, newPath)
            THEN [dirs |-> ds \cup {Canon(newPath)}, ret |-> StringValue(newPath),
                  threw |-> FALSE, logged |-> "none"]
        ELSE [dirs |-> ds, ret |-> NoValue, threw |-> TRUE, logged |-> "none"]

\* makeTemplate without the existsSync guard
MakeTemplateUnguarded(ds, fl, dir, file_name, code) ==
    LET filePath == PathJoin(dir, file_name)
    IN  IF WriteOk(ds, fl, filePath)
            THEN [files |-> (Canon(filePath) :> code) @@ fl, threw |-> FALSE,
                  logged |-> "none"]
        ELSE [files |-> fl, threw |-> FALSE,
              logged |-> "[Snpy-Error] Failed to write file"]

\* makeTemplate without the try/catch around the write
MakeTemplateUncaught(ds, fl, dir, file_name, code) ==
    LET filePath == PathJoin(dir, file_name)
    IN  IF ExistsSync(ds, fl, filePath)
            THEN [files |-> fl, threw |-> FALSE,
                  logged |-> "[Snpy-Error] File already exists"]
        ELSE IF WriteOk(ds, fl, filePath)
            THEN [files |-> (Canon(filePath) :> code) @@ fl, threw |-> FALSE,
                  logged |-> "none"]
        ELSE [files |-> fl, threw |-> TRUE, logged |-> "none"]

\* Snpy.makeTemplate: what it leaves and logs, or that it threw
MakeTemplate(ds, fl, dir, file_name, code) ==
    LET filePath == PathJoin(dir, file_name)
    IN  IF ExistsSync(ds, fl, filePath)
            THEN [files |-> fl, threw |-> FALSE,
                  logged |-> "[Snpy-Error] File already exists"]
        ELSE IF WriteOk(ds, fl, filePath)
            THEN [files |-> (Canon(filePath) :> code) @@ fl, threw |-> FALSE,
                  logged |-> "none"]
        ELSE [files |-> fl, threw |-> FALSE,
              logged |-> "[Snpy-Error] Failed to write file"]

\* ------------------------------------------------ states outside a prompt

NoOption == [type |-> "none"]

\* no prompt of the session has lost its handler to another
NoPrompt == [pc |-> "none"]

\* the prompt's variables while no prompt has set them
PromptUnset ==
    /\ option = NoOption
    /\ defaultValue = <<>>
    /\ currentIndex = 0
    /\ selectedItems = <<>>
    /\ input = <<>>
    /\ hasInput = FALSE
    /\ currentPath = <<>>

\* ---------------------------------------- specification of the list window

WindowItems(n) == [i \in 1..n |-> <<"a">>]

InitWindow ==
    /\ pc = "window"
    /\ \E n \in 0..MaxItems :
        /\ option = [type |-> "list", choices |-> WindowItems(n)]
        /\ currentIndex \in 0..(Max(n, 1) - 1)
    /\ defaultValue = <<>> /\ selectedItems = <<>> /\ input = <<>>
    /\ hasInput = FALSE /\ currentPath = <<>>
    /\ io = NewIO
    /\ screen = [tag |-> "none"]
    /\ result = NoValue
    /\ dirs = {} /\ files = EmptyFiles /\ mkdirs = 0
    /\ calls = <<>>
    /\ displaced = NoPrompt

\* one render of a list of option.choices with the cursor at currentIndex
WindowRender ==
    /\ pc = "window"
    /\ screen' = Render(option.choices, currentIndex)
    /\ pc' = "windowed"
    /\ UNCHANGED <<promptVars, io, result, fsVars, calls, displaced>>

NextWindow == WindowRender

SpecWindow == InitWindow /\ [][NextWindow]_vars

\* ------------------------------------------ specification of the utilities

UtilDirs == {<<".">>, <<"a">>, <<"c">>}

UtilNames == {<<"a">>, <<"a", "/">>, <<"f">>}

UtilCodes == {<<"a">>, <<"b">>}

\* the filesystems a utility call may find
UtilFilesystems ==
    { [dirs |-> {}, files |-> EmptyFiles],
      [dirs |-> {<< <<"a">> >>}, files |-> (<< <<"f">> >> :> <<"a">>)],
      [dirs |-> {<< <<"a">> >>, << <<"c">> >>},
       files |-> (<< <<"a">>, <<"f">> >> :> <<"b">>) @@ (<< <<"c">>, <<"f">> >> :> <<"a">>)] }

InitUtil ==
    /\ pc = "util"
    /\ PromptUnset
    /\ io = NewIO
    /\ screen = [tag |-> "none"]
    /\ result = NoValue
    /\ \E f \in UtilFilesystems : dirs = f.dirs /\ files = f.files
    /\ mkdirs = 0
    /\ calls = <<>>
    /\ displaced = NoPrompt

\* something is at the place p names, whether or not existsSync can see it
Present(ds, fl, p) == IsDir(ds, Canon(p)) \/ Canon(p) \in DOMAIN fl

\* the caller calls snpy.makeFolder(parent, folderName)
CallMakeFolder(parent, folderName) ==
    LET r == MakeFolder(dirs, files, parent, folderName)
    IN  /\ pc = "util"
        /\ Len(calls) < MaxCalls
        /\ dirs' = r.dirs
        /\ mkdirs' = IF r.dirs = dirs THEN mkdirs ELSE mkdirs + 1
        /\ screen' = IF r.logged = "none" THEN screen ELSE LogError(r.logged)
        /\ calls' = Append(calls,
              [op |-> "makeFolder", dir |-> parent, name |-> folderName, code |-> <<>>,
               present |-> Present(dirs, files, PathJoin(parent, folderName)),
               ret |-> r.ret, threw |-> r.threw, logged |-> r.logged,
               dirsBefore |-> dirs, filesBefore |-> files,
               dirsAfter |-> r.dirs, filesAfter |-> files])
        /\ pc' = IF r.threw THEN "thrown" ELSE pc
        /\ UNCHANGED <<promptVars, io, result, files, displaced>>

\* the caller calls snpy.makeTemplate({dir, file_name, code})
CallMakeTemplate(dir, file_name, code) ==
    LET r == MakeTemplate(dirs, files, dir, file_name, code)
    IN  /\ pc = "util"
        /\ Len(calls) < MaxCalls
        /\ files' = r.files
        /\ screen' = IF r.logged = "none" THEN screen ELSE LogError(r.logged)
        /\ calls' = Append(calls,
              [op |-> "makeTemplate", dir |-> dir, name |-> file_name, code |-> code,
               present |-> Present(dirs, files, PathJoin(dir, file_name)),
               ret |-> NoValue, threw |-> r.threw, logged |-> r.logged,
               dirsBefore |-> dirs, filesBefore |-> files,
               dirsAfter |-> dirs, filesAfter |-> r.files])
        /\ pc' = IF r.threw THEN "thrown" ELSE pc
        /\ UNCHANGED <<promptVars, io, result, dirs, mkdirs, displaced>>

NextUtil ==
    \/ \E parent \in UtilDirs, folderName \in UtilNames :
           CallMakeFolder(parent, folderName)
    \/ \E dir \in UtilDirs, file_name \in UtilNames, code \in UtilCodes :
           CallMakeTemplate(dir, file_name, code)

SpecUtil == InitUtil /\ [][NextUtil]_vars

\* ------------------------------------------------------------- key events

\* a key event as readline hands it to the handler; str = <<>> is undefined
Key(name, str) == [name |-> name, str |-> str, ctrl |-> FALSE, meta |-> FALSE]

CharKey(c) == Key(LowerChar(c), <<c>>)

CtrlC == [name |-> "c", str |-> <<"^C">>, ctrl |-> TRUE, meta |-> FALSE]

ControlKeys ==
    { [name |-> "a", str |-> <<"^A">>, ctrl |-> TRUE, meta |-> FALSE],
      [name |-> "a", str |-> <<"ESC", "a">>, ctrl |-> FALSE, meta |-> TRUE] }

NavigationKeys ==
    { Key("up", <<>>), Key("down", <<>>), Key("return", <<"CR">>),
      Key("backspace", <<"DEL">>), Key("space", <<" ">>) }

\* the characters typed at each kind of prompt
TypedChars(handler, nested) ==
    IF handler = "confirm" THEN {"y", "n", "Y", "N", "a"}
    ELSE IF handler = "input" /\ nested THEN {"a", "."}
    ELSE IF handler = "input" THEN {"a", "b"}
    ELSE {"a"}

\* the key events offered to the handler subscribed
KeysFor(handler, nested) ==
    (IF handler = "input" /\ nested THEN NavigationKeys \ {Key("space", <<" ">>)}
     ELSE NavigationKeys)
    \cup ControlKeys \cup {CharKey(c) : c \in TypedChars(handler, nested)}

\* ------------------------------------------------------- prompt helpers

\* the up branch wrapping to one past the last entry
MoveUpPastEnd(idx, length) == IF idx > 0 THEN idx - 1 ELSE length

\* cursor movement of the list-like prompts
MoveUp(idx, length) == IF idx > 0 THEN idx - 1 ELSE length - 1

\* the down branch wrapping one entry late
MoveDownLate(idx, length) == IF idx < length THEN idx + 1 ELSE 0

MoveDown(idx, length) == IF idx < length - 1 THEN idx + 1 ELSE 0

\* Number.prototype.toString as a sequence of code-unit ranks ('-' below '0')
RECURSIVE Digits(_)
Digits(n) == IF n < 10 THEN <<n + 1>> ELSE Append(Digits(n \div 10), (n % 10) + 1)

NumberToString(n) == IF n < 0 THEN <<0>> \o Digits(-n) ELSE Digits(n)

RECURSIVE CodeLess(_, _)
CodeLess(a, b) ==
    IF b = <<>> THEN FALSE
    ELSE IF a = <<>> THEN TRUE
    ELSE IF Head(a) # Head(b) THEN Head(a) < Head(b)
    ELSE CodeLess(Tail(a), Tail(b))

\* the indices left in the order of their insertion
SortNone(seq) == seq

\* Array.prototype.sort with no comparator: by the elements' strings
RECURSIVE SortDefault(_)
SortDefault(seq) ==
    IF seq = <<>> THEN <<>>
    ELSE LET i == CHOOSE j \in 1..Len(seq) :
                      \A k \in 1..Len(seq) :
                          k = j \/ ~CodeLess(NumberToString(seq[k]), NumberToString(seq[j]))
         IN  <<seq[i]>> \o SortDefault(SubSeq(seq, 1, i - 1) \o SubSeq(seq, i + 1, Len(seq)))

\* Set.prototype.has / delete / add on the insertion-ordered Set
Has(set, x) == \E i \in 1..Len(set) : set[i] = x

\* the space branch emptying the set when it unselects
ToggleDropsOthers(set, x) == IF Has(set, x) THEN <<>> ELSE Append(set, x)

Toggle(set, x) == IF Has(set, x) THEN Without(set, x) ELSE Append(set, x)

\* handleCheckbox, return branch: the labels handed to resolve
SelectedChoices(choices, set) ==
    LET sorted == SortDefault(set)
    IN  [i \in 1..Len(sorted) |-> OrEmpty(At(choices, sorted[i]))]

ArrayValue(a) == [type |-> "array", value |-> a]

Rejected(e) == [type |-> "rejected", error |-> e]

\* handleInput: option.default?.toString() || ''
InputDefault(opt) == IF opt.default.type = "string" THEN opt.default.value ELSE <<>>

\* handleConfirm: the default letter
ConfirmDefault(opt) ==
    IF opt.default.type = "none" THEN <<"Y">>
    ELSE IF opt.default.value THEN <<"Y">> ELSE <<"N">>

\* handleConfirm: the hint of the prompt line
ConfirmChoices(dflt) == IF dflt = <<"Y">> THEN "Y/n" ELSE "y/N"

\* the buffer handed on whether or not it is empty
InputOnly(buffer, dflt) == buffer

\* handleInput / handleConfirm: input || defaultValue
InputOrDefault(buffer, dflt) == IF buffer # <<>> THEN buffer ELSE dflt

\* the comparison with 'y' without lowercasing
ConfirmResultCaseSensitive(buffer, dflt) ==
    (IF buffer # <<>> THEN buffer ELSE dflt) = <<"y">>

\* handleConfirm, return branch: the value handed to resolve
ConfirmResult(buffer, dflt) == ToLowerCase(InputOrDefault(buffer, dflt)) = <<"y">>

\* the prompt line of handleInput / handleConfirm after showDefaultValue or resetLine
Line(hint, buffer, dflt) ==
    [tag |-> "line", hint |-> hint,
     text |-> IF buffer # <<>> THEN buffer ELSE dflt, dim |-> buffer = <<>>]

\* the base taken to be '.' whatever the option says
BasePathAlwaysDot(opt) == <<".">>

\* the default used for an absent basePath only, not for an empty one
BasePathNoDefault(opt) ==
    IF opt.basePath.type = "string" THEN opt.basePath.value ELSE <<".">>

\* handleDirectory: option.basePath || '.'
BasePath(opt) ==
    IF opt.basePath.type = "string" /\ opt.basePath.value # <<>>
        THEN opt.basePath.value
    ELSE <<".">>

\* getChoices offering the go-up marker in the base directory too
GetChoicesAlwaysBack(ds, opt, path) ==
    <<SELECT_THIS_PATH, SELECT_BACK_PATH>> \o GetDirectories(ds, path)

\* getChoices putting the go-up marker first
GetChoicesBackFirst(ds, opt, path) ==
    (IF path # BasePath(opt) THEN <<SELECT_BACK_PATH>> ELSE <<>>)
    \o <<SELECT_THIS_PATH>>
    \o GetDirectories(ds, path)

\* handleDirectory.getChoices (called where the listing succeeds)
GetChoices(ds, opt, path) ==
    <<SELECT_THIS_PATH>>
    \o (IF path # BasePath(opt) THEN <<SELECT_BACK_PATH>> ELSE <<>>)
    \o GetDirectories(ds, path)

\* ------------------------------------------------ the session: run calls

SmallChoices == << <<"a">>, <<"b">>, <<"c">> >>

ChoiceLabels == <<"L0", "L1", "L2", "L3", "L4", "L5", "L6", "L7", "L8", "L9", "L10">>

LargeChoices == [i \in 1..Len(ChoiceLabels) |-> <<ChoiceLabels[i]>>]

\* the filesystem the session starts in: b, b/[ SELECT THIS PATH ], c and r
InitialDirs ==
    { << <<"b">> >>, << <<"b">>, SELECT_THIS_PATH >>, << <<"c">> >>, << <<"r">> >> }

\* the options the caller hands to run
Options ==
    [type : {"list"}, choices : {<<>>, SmallChoices, LargeChoices}]
    \cup [type : {"nlist"}, choices : {SmallChoices}]
    \cup [type : {"checkbox"}, choices : {<<>>, SmallChoices, LargeChoices}]
    \cup [type : {"confirm"}, default : {NoValue, BooleanValue(TRUE), BooleanValue(FALSE)}]
    \cup [type : {"input"}, default : {NoValue, StringValue(<<>>), StringValue(<<"c">>)}]
    \cup [type : {"directory"},
          basePath : {NoValue, StringValue(<<>>), StringValue(<<".">>),
                      StringValue(<<"b">>), StringValue(<<".", "/", "b">>)}]
    \cup [type : {"unknown"}]

Init ==
    /\ pc = "idle"
    /\ PromptUnset
    /\ io = NewIO
    /\ screen = [tag |-> "none"]
    /\ result = NoValue
    /\ dirs = InitialDirs
    /\ files = EmptyFiles
    /\ mkdirs = 0
    /\ calls = <<>>
    /\ displaced = NoPrompt

\* run handing an option of an unknown kind to the text prompt
RunLenient(opt) ==
    /\ pc = "idle"
    /\ opt.type = "unknown"
    /\ option' = opt
    /\ currentIndex' = 0
    /\ selectedItems' = <<>>
    /\ input' = <<>>
    /\ hasInput' = FALSE
    /\ defaultValue' = <<>>
    /\ currentPath' = <<>>
    /\ screen' = Line("", <<>>, <<>>)
    /\ io' = OnKeyPress(SetRawMode(io, TRUE), "input")
    /\ pc' = "prompt"
    /\ result' = NoValue
    /\ UNCHANGED <<fsVars, calls, displaced>>

\* Snpy.run(opt) up to the first key: the mode is set and the handler called
\* renders its prompt and subscribes, or the call is rejected
Start(opt) ==
    LET o == SetRawMode(io, opt.type # "input" /\ opt.type # "confirm")
    IN  /\ option' = opt
        /\ currentIndex' = 0
        /\ selectedItems' = <<>>
        /\ input' = <<>>
        /\ hasInput' = FALSE
        /\ defaultValue' = IF opt.type = "input" THEN InputDefault(opt)
                           ELSE IF opt.type = "confirm" THEN ConfirmDefault(opt)
                           ELSE <<>>
        /\ currentPath' = IF opt.type = "directory" THEN BasePath(opt) ELSE <<>>
        /\ UNCHANGED <<fsVars, calls>>
        /\ IF opt.type \in {"list", "nlist", "checkbox"}
               THEN /\ screen' = Render(opt.choices, 0)
                    /\ io' = OnKeyPress(o, IF opt.type = "checkbox" THEN "checkbox"
                                           ELSE "selectable")
                    /\ pc' = "prompt"
                    /\ result' = NoValue
           ELSE IF opt.type = "input"
               THEN /\ screen' = Line("", <<>>, InputDefault(opt))
                    /\ io' = OnKeyPress(o, "input")
                    /\ pc' = "prompt"
                    /\ result' = NoValue
           ELSE IF opt.type = "confirm"
               THEN /\ screen' = Line(ConfirmChoices(ConfirmDefault(opt)), <<>>,
                                      ConfirmDefault(opt))
                    /\ io' = OnKeyPress(o, "confirm")
                    /\ pc' = "prompt"
                    /\ result' = NoValue
           ELSE IF opt.type = "directory"
               THEN IF ReaddirOk(dirs, BasePath(opt))
                        THEN /\ screen' = Render(GetChoices(dirs, opt, BasePath(opt)), 0)
                             /\ io' = OnKeyPress(o, "directory")
                             /\ pc' = "prompt"
                             /\ result' = NoValue
                    \* the first render throws in the promise executor: run rejects
                    ELSE /\ screen' = screen
                         /\ io' = o
                         /\ pc' = "idle"
                         /\ result' = Rejected("readdir")
           \* the default branch of the switch throws
           ELSE /\ screen' = screen
                /\ io' = o
                /\ pc' = "idle"
                /\ result' = Rejected("Unsupported option type")

\* the caller calls run(opt) while no prompt is in flight; a session is followed
\* into its next prompt as long as it has created no directory and no prompt of
\* it has been displaced
Run(opt) ==
    /\ pc = "idle"
    /\ mkdirs = 0
    /\ displaced = NoPrompt
    /\ Start(opt)
    /\ UNCHANGED displaced

\* a key event reaches the handler named, which the input stream of the running
\* process holds
Delivered(handler, key) ==
    /\ pc \notin {"crashed", "exited"}
    /\ Has(io.listeners, handler)
    /\ key \in KeysFor(handler, pc = "naming")
    /\ ~(key.ctrl /\ key.name = "c")

\* the return branch resolving without removeKeyPressHandler
ResolveKeepsHandler(value) ==
    /\ io' = io
    /\ screen' = Cleared
    /\ result' = value
    /\ pc' = "idle"

\* run after the prompt resolved with value: clear the screen, return the value
Resolve(value) ==
    /\ io' = RemoveKeyPressHandler(io)
    /\ screen' = Cleared
    /\ result' = value
    /\ pc' = "idle"

\* handleSelectable's key handler
KeySelectable(key) ==
    /\ Delivered("selectable", key)
    /\ UNCHANGED <<option, defaultValue, selectedItems, input, hasInput, currentPath,
                   fsVars, calls, displaced>>
    /\ IF key.name = "up" \/ key.name = "down"
           THEN /\ currentIndex' = IF key.name = "up"
                                   THEN MoveUp(currentIndex, Len(option.choices))
                                   ELSE MoveDown(currentIndex, Len(option.choices))
                /\ screen' = Render(option.choices, currentIndex')
                /\ UNCHANGED <<pc, io, result>>
       ELSE IF key.name = "return"
           THEN /\ Resolve(StringValue(OrEmpty(At(option.choices, currentIndex))))
                /\ UNCHANGED currentIndex
       ELSE UNCHANGED <<pc, io, result, currentIndex, screen>>

\* handleCheckbox's key handler
KeyCheckbox(key) ==
    /\ Delivered("checkbox", key)
    /\ UNCHANGED <<option, defaultValue, input, hasInput, currentPath, fsVars, calls, displaced>>
    /\ IF key.name = "up" \/ key.name = "down"
           THEN /\ currentIndex' = IF key.name = "up"
                                   THEN MoveUp(currentIndex, Len(option.choices))
                                   ELSE MoveDown(currentIndex, Len(option.choices))
                /\ screen' = Render(option.choices, currentIndex')
                /\ UNCHANGED <<pc, io, result, selectedItems>>
       ELSE IF key.name = "space"
           THEN /\ Has(selectedItems, currentIndex) \/ Len(selectedItems) < MaxSelected
                /\ selectedItems' = Toggle(selectedItems, currentIndex)
                /\ screen' = Render(option.choices, currentIndex)
                /\ UNCHANGED <<pc, io, result, currentIndex>>
       ELSE IF key.name = "return"
           THEN /\ Resolve(ArrayValue(SelectedChoices(option.choices, selectedItems)))
                /\ UNCHANGED <<currentIndex, selectedItems>>
       ELSE UNCHANGED <<pc, io, result, currentIndex, selectedItems, screen>>

\* the confirm handler appending an accepted letter to the buffer
KeyConfirmAppends(key) ==
    /\ Delivered("confirm", key)
    /\ UNCHANGED <<option, defaultValue, currentIndex, selectedItems, currentPath,
                   fsVars, calls, displaced>>
    /\ IF key.name = "return"
           THEN /\ Resolve(BooleanValue(ConfirmResult(input, defaultValue)))
                /\ UNCHANGED <<input, hasInput>>
       ELSE IF key.name = "backspace"
           THEN /\ input' = IF Len(input) > 0 THEN SubSeq(input, 1, Len(input) - 1)
                            ELSE input
                /\ hasInput' = IF Len(input') > 0 THEN hasInput ELSE FALSE
                /\ screen' = Line(ConfirmChoices(defaultValue), input', defaultValue)
                /\ UNCHANGED <<pc, io, result>>
       ELSE IF key.str # <<>> /\ ~key.ctrl /\ ~key.meta
                /\ ToLowerCase(key.str) \in {<<"y">>, <<"n">>}
           THEN /\ Len(input) < MaxInput
                /\ input' = input \o ToLowerCase(key.str)
                /\ hasInput' = TRUE
                /\ screen' = Line(ConfirmChoices(defaultValue), input', defaultValue)
                /\ UNCHANGED <<pc, io, result>>
       ELSE UNCHANGED <<pc, io, result, input, hasInput, screen>>

\* handleConfirm's key handler
KeyConfirm(key) ==
    /\ Delivered("confirm", key)
    /\ UNCHANGED <<option, defaultValue, currentIndex, selectedItems, currentPath,
                   fsVars, calls, displaced>>
    /\ IF key.name = "return"
           THEN /\ Resolve(BooleanValue(ConfirmResult(input, defaultValue)))
                /\ UNCHANGED <<input, hasInput>>
       ELSE IF key.name = "backspace"
           THEN /\ input' = IF Len(input) > 0 THEN SubSeq(input, 1, Len(input) - 1)
                            ELSE input
                /\ hasInput' = IF Len(input') > 0 THEN hasInput ELSE FALSE
                /\ screen' = Line(ConfirmChoices(defaultValue), input', defaultValue)
                /\ UNCHANGED <<pc, io, result>>
       ELSE IF key.str # <<>> /\ ~key.ctrl /\ ~key.meta
                /\ ToLowerCase(key.str) \in {<<"y">>, <<"n">>}
           THEN /\ input' = ToLowerCase(key.str)
                /\ hasInput' = TRUE
                /\ screen' = Line(ConfirmChoices(defaultValue), input', defaultValue)
                /\ UNCHANGED <<pc, io, result>>
       ELSE UNCHANGED <<pc, io, result, input, hasInput, screen>>

\* the then-callback rendering without subscribing the browser's handler again
ResumeWithoutHandler(o, path, idx) ==
    /\ screen' = Render(GetChoices(dirs', option, path), idx)
    /\ io' = o
    /\ pc' = "prompt"

\* handleDirectory: the render and the reattachment that follow createNewFolder,
\* or the crash when the listing of the render throws
Resume(o, path, idx) ==
    IF ReaddirOk(dirs', path)
        THEN /\ screen' = Render(GetChoices(dirs', option, path), idx)
             /\ io' = OnKeyPress(o, "directory")
             /\ pc' = "prompt"
    ELSE /\ screen' = screen
         /\ io' = o
         /\ pc' = "crashed"

\* createNewFolder creating the directory without moving into it
CreateNewFolderStays(folderName) ==
    LET o       == RemoveKeyPressHandler(io)
        newPath == PathJoin(currentPath, folderName)
    IN  IF folderName = <<>>
            THEN /\ UNCHANGED <<currentPath, currentIndex, fsVars>>
                 /\ Resume(SetRawMode(o, TRUE), currentPath, currentIndex)
        ELSE IF ExistsSync(dirs, files, newPath) \/ ~MkdirOk(dirs, files, newPath)
            THEN /\ screen' = LogError("Failed to create folder!")
                 /\ io' = o
                 /\ pc' = "pause"
                 /\ UNCHANGED <<currentPath, currentIndex, fsVars>>
        ELSE /\ dirs' = dirs \cup {Canon(newPath)}
             /\ mkdirs' = mkdirs + 1
             /\ files' = files
             /\ currentPath' = currentPath
             /\ currentIndex' = 0
             /\ Resume(SetRawMode(o, TRUE), currentPath, 0)

\* handleDirectory.createNewFolder from the nested prompt's answer on, and the
\* then-callback of the space branch when createNewFolder returns at once
CreateNewFolder(folderName) ==
    LET o       == RemoveKeyPressHandler(io)
        newPath == PathJoin(currentPath, folderName)
    IN  IF folderName = <<>>
            THEN /\ UNCHANGED <<currentPath, currentIndex, fsVars>>
                 /\ Resume(SetRawMode(o, TRUE), currentPath, currentIndex)
        ELSE IF ExistsSync(dirs, files, newPath)
            THEN /\ screen' = LogError("Folder already exists!")
                 /\ io' = o
                 /\ pc' = "pause"
                 /\ UNCHANGED <<currentPath, currentIndex, fsVars>>
        ELSE IF MkdirOk(dirs, files, newPath)
            THEN /\ dirs' = dirs \cup {Canon(newPath)}
                 /\ mkdirs' = mkdirs + 1
                 /\ files' = files
                 /\ currentPath' = newPath
                 /\ currentIndex' = 0
                 /\ Resume(SetRawMode(o, TRUE), newPath, 0)
        ELSE /\ screen' = LogError("Failed to create folder!")
             /\ io' = o
             /\ pc' = "pause"
             /\ UNCHANGED <<currentPath, currentIndex, fsVars>>

\* handleInput's key handler, for a text prompt and for the nested folder name
KeyInput(key) ==
    /\ Delivered("input", key)
    /\ UNCHANGED <<option, defaultValue, selectedItems, calls, displaced>>
    /\ IF key.name = "return"
           THEN IF pc = "naming"
                    \* the nested prompt is over and its buffer with it
                    THEN /\ CreateNewFolder(InputOrDefault(input, defaultValue))
                         /\ input' = <<>>
                         /\ hasInput' = FALSE
                         /\ UNCHANGED result
                ELSE /\ Resolve(StringValue(InputOrDefault(input, defaultValue)))
                     /\ UNCHANGED <<input, hasInput, currentPath, currentIndex, fsVars>>
       ELSE IF key.name = "backspace"
           THEN /\ input' = IF Len(input) > 0 THEN SubSeq(input, 1, Len(input) - 1)
                            ELSE input
                /\ hasInput' = IF Len(input') > 0 THEN hasInput ELSE FALSE
                /\ screen' = Line("", input', defaultValue)
                /\ UNCHANGED <<pc, io, result, currentPath, currentIndex, fsVars>>
       ELSE IF key.str # <<>> /\ ~key.ctrl /\ ~key.meta
           THEN /\ Len(input) < MaxInput
                /\ input' = input \o key.str
                /\ hasInput' = TRUE
                /\ screen' = Line("", input', defaultValue)
                /\ UNCHANGED <<pc, io, result, currentPath, currentIndex, fsVars>>
       ELSE UNCHANGED <<pc, io, result, input, hasInput, screen, currentPath,
                        currentIndex, fsVars>>

\* the browser resuming at the first entry after the pause
PauseOverResetsCursor ==
    /\ pc = "pause"
    /\ currentIndex' = 0
    /\ UNCHANGED <<option, defaultValue, selectedItems, input, hasInput, currentPath,
                   result, fsVars, calls, displaced>>
    /\ Resume(SetRawMode(io, TRUE), currentPath, 0)

\* the 1500 ms timer of createNewFolder's error branches fires
PauseOver ==
    /\ pc = "pause"
    /\ UNCHANGED <<option, defaultValue, selectedItems, input, hasInput, currentPath,
                   currentIndex, result, fsVars, calls, displaced>>
    /\ Resume(SetRawMode(io, TRUE), currentPath, currentIndex)

\* handleDirectory's keyPressHandler
KeyDirectory(key) ==
    /\ Delivered("directory", key)
    /\ UNCHANGED <<option, selectedItems, calls, displaced>>
    /\ IF ~ReaddirOk(dirs, currentPath)
           \* getChoices throws in the handler: nothing catches it
           THEN /\ pc' = "crashed"
                /\ UNCHANGED <<defaultValue, input, hasInput, currentPath, currentIndex,
                               io, screen, result, fsVars>>
       ELSE LET choices  == GetChoices(dirs, option, currentPath)
                selected == At(choices, currentIndex)
                moved    == IF key.name = "return" /\ selected = SELECT_BACK_PATH
                                THEN Dirname(currentPath)
                            ELSE IF key.name = "return"
                                THEN PathJoin(currentPath, selected)
                            ELSE Dirname(currentPath)
            IN  IF key.name = "up" \/ key.name = "down"
                    THEN /\ currentIndex' = IF key.name = "up"
                                            THEN MoveUp(currentIndex, Len(choices))
                                            ELSE MoveDown(currentIndex, Len(choices))
                         /\ screen' = Render(choices, currentIndex')
                         /\ UNCHANGED <<defaultValue, input, hasInput, currentPath, pc,
                                        io, result, fsVars>>
                ELSE IF key.name = "space"
                    \* createNewFolder up to the nested prompt's first key
                    THEN /\ mkdirs < MaxMkdir
                         /\ io' = OnKeyPress(SetRawMode(RemoveKeyPressHandler(io), FALSE),
                                             "input")
                         /\ defaultValue' = <<>>
                         /\ input' = <<>>
                         /\ hasInput' = FALSE
                         /\ screen' = Line("", <<>>, <<>>)
                         /\ pc' = "naming"
                         /\ UNCHANGED <<currentPath, currentIndex, result, fsVars>>
                ELSE IF key.name = "return" /\ selected = SELECT_THIS_PATH
                    THEN /\ Resolve(StringValue(currentPath))
                         /\ UNCHANGED <<defaultValue, input, hasInput, currentPath,
                                        currentIndex, fsVars>>
                ELSE IF key.name = "return" /\ selected = Undefined
                    \* path.join(currentPath, undefined) throws in the handler
                    THEN /\ pc' = "crashed"
                         /\ UNCHANGED <<defaultValue, input, hasInput, currentPath,
                                        currentIndex, io, screen, result, fsVars>>
                ELSE IF \/ key.name = "return"
                        \/ key.name = "backspace" /\ currentPath # BasePath(option)
                    THEN /\ currentPath' = moved
                         /\ currentIndex' = 0
                         /\ UNCHANGED <<defaultValue, input, hasInput, result, fsVars>>
                         /\ IF ReaddirOk(dirs, moved)
                                THEN /\ screen' = Render(GetChoices(dirs, option, moved), 0)
                                     /\ UNCHANGED <<pc, io>>
                            \* render throws in the handler: nothing catches it
                            ELSE /\ pc' = "crashed"
                                 /\ UNCHANGED <<io, screen>>
                ELSE UNCHANGED <<defaultValue, input, hasInput, currentPath, currentIndex,
                                 pc, io, screen, result, fsVars>>

\* ctrl+c handed on to a handler that gives up with what was entered so far
KeyCtrlCResolves ==
    /\ pc \in {"prompt", "naming"}
    /\ io.listeners # <<>>
    /\ Resolve(StringValue(input))
    /\ UNCHANGED <<promptVars, fsVars, calls, displaced>>

\* ctrl+c: the wrapper installed by IO.onKeyPress exits the process
KeyCtrlC ==
    /\ pc \in {"prompt", "naming"}
    /\ io.listeners # <<>>
    /\ pc' = "exited"
    /\ UNCHANGED <<promptVars, io, screen, result, fsVars, calls, displaced>>

Next ==
    \/ \E opt \in Options : Run(opt)
    \/ \E key \in KeysFor("selectable", FALSE) : KeySelectable(key)
    \/ \E key \in KeysFor("checkbox", FALSE) : KeyCheckbox(key)
    \/ \E key \in KeysFor("confirm", FALSE) : KeyConfirm(key)
    \/ \E key \in KeysFor("input", FALSE) \cup KeysFor("input", TRUE) : KeyInput(key)
    \/ \E key \in KeysFor("directory", FALSE) : KeyDirectory(key)
    \/ PauseOver
    \/ KeyCtrlC

Spec == Init /\ [][Next]_vars

\* the event loop fires a timer that is due: the pause of createNewFolder ends
SpecLive == Spec /\ WF_vars(PauseOver)

\* ------------------------- specification of the session on a shared filesystem

\* the directories another process makes and removes while the browser is open
SharedDirs == { << <<"a">> >>, << <<"r">> >>, << <<"b">>, <<"a">> >> }

\* between two key events of a directory prompt another process makes a
\* directory, or removes an empty one: the next readdirSync sees the change
OtherProcess ==
    /\ pc \in {"prompt", "naming", "pause"}
    /\ option.type = "directory"
    /\ \E d \in SharedDirs :
           \/ /\ d \notin dirs
              /\ SubSeq(d, 1, Len(d) - 1) \in dirs \cup {<<>>}
              /\ dirs' = dirs \cup {d}
           \/ /\ d \in dirs
              /\ \A e \in dirs : Len(e) > Len(d) => SubSeq(e, 1, Len(d)) # d
              /\ dirs' = dirs \ {d}
    /\ UNCHANGED <<pc, promptVars, io, screen, result, files, mkdirs, calls, displaced>>

NextShared ==
    \/ Next
    \/ OtherProcess

SpecShared == Init /\ [][NextShared]_vars

\* ----------------------------- specification of overlapping run calls

\* run's switch: the handler that awaits keys for an option of the given type
HandlerOf(type) ==
    IF type = "list" \/ type = "nlist" THEN "selectable" ELSE type

\* the options of the run call made while another prompt is in flight
OverlapOptions ==
    { [type |-> "list", choices |-> SmallChoices],
      [type |-> "confirm", default |-> NoValue] }

\* the prompt in flight as its closures hold it: where it is and its variables
InFlight ==
    [pc |-> pc, option |-> option, defaultValue |-> defaultValue,
     currentIndex |-> currentIndex, selectedItems |-> selectedItems,
     input |-> input, hasInput |-> hasInput, currentPath |-> currentPath]

\* the caller calls run(opt) while the prompt of an earlier run call has not
\* resolved: onKeyPress takes the earlier prompt's handler off the stream.
\* The two prompts are of different kinds, so that the name of the handler
\* subscribed tells whose it is, and the earlier one has a short list.
RunOver(opt) ==
    /\ pc \in {"prompt", "naming", "pause"}
    /\ displaced = NoPrompt
    /\ HandlerOf(option.type) # HandlerOf(opt.type)
    /\ option.type \in {"list", "nlist", "checkbox"}
          => Len(option.choices) <= Len(SmallChoices)
    /\ displaced' = InFlight
    /\ Start(opt)

\* the 1500 ms timer of a displaced browser's createNewFolder fires: raw mode is
\* set, createNewFolder returns false and the then-callback of the space branch
\* renders the browser and subscribes its handler again, which takes the
\* handler of the later prompt, if that still awaits a key, off the stream
DisplacedPauseOver ==
    /\ displaced.pc = "pause"
    /\ pc \in {"prompt", "idle"}
    /\ UNCHANGED <<result, fsVars, calls>>
    /\ IF ReaddirOk(dirs, displaced.currentPath)
           THEN /\ option' = displaced.option
                /\ defaultValue' = displaced.defaultValue
                /\ currentIndex' = displaced.currentIndex
                /\ selectedItems' = displaced.selectedItems
                /\ input' = displaced.input
                /\ hasInput' = displaced.hasInput
                /\ currentPath' = displaced.currentPath
                /\ screen' = Render(GetChoices(dirs, displaced.option,
                                               displaced.currentPath),
                                    displaced.currentIndex)
                /\ io' = OnKeyPress(SetRawMode(io, TRUE), "directory")
                /\ pc' = "prompt"
                /\ displaced' = IF pc = "prompt" THEN InFlight ELSE NoPrompt
       \* render throws in the then-callback: nothing catches it
       ELSE /\ pc' = "crashed"
            /\ io' = SetRawMode(io, TRUE)
            /\ UNCHANGED <<promptVars, screen, displaced>>

NextOverlap ==
    \/ Next
    \/ \E opt \in OverlapOptions : RunOver(opt)
    \/ DisplacedPauseOver

SpecOverlap == Init /\ [][NextOverlap]_vars

\* ------------------------------------- specification of the scoped session

\* IO.exit, called by Snpy.exit: the readline interface is closed once more
Exit(o) == [o EXCEPT !.closed = @ + 1]

\* the cleanup skipped when the callback failed
PromptSettleOnSuccess(o, outcome) ==
    IF outcome.type = "rejected" THEN [io |-> o, outcome |-> outcome]
    ELSE [io |-> Exit(o), outcome |-> outcome]

\* Snpy.prompt from the settlement of the callback on: the finally block calls
\* exit, then the outcome of the callback is the outcome of prompt
PromptSettle(o, outcome) == [io |-> Exit(o), outcome |-> outcome]

\* the ways the callback may finish between its awaited run calls: it returns,
\* it throws an error of its own, or it lets the error of its last run go on
CallbackOutcomes ==
    {NoValue, Rejected("callback")}
    \cup (IF result.type = "rejected" THEN {result} ELSE {})

InitPrompt ==
    /\ pc = "outside"
    /\ PromptUnset
    /\ io = NewIO
    /\ screen = [tag |-> "none"]
    /\ result = NoValue
    /\ dirs = InitialDirs
    /\ files = EmptyFiles
    /\ mkdirs = 0
    /\ calls = <<>>
    /\ displaced = NoPrompt

\* Snpy.prompt(callback) up to the first await of the callback: new Snpy()
PromptEnter ==
    /\ pc = "outside"
    /\ io' = NewIO
    /\ pc' = "idle"
    /\ UNCHANGED <<promptVars, screen, result, fsVars, calls, displaced>>

\* the callback settles with outcome; the finally block runs before anything else
CallbackSettles(outcome) ==
    LET r == PromptSettle(io, outcome)
    IN  /\ pc = "idle"
        /\ outcome \in CallbackOutcomes
        /\ io' = r.io
        /\ result' = r.outcome
        /\ pc' = IF r.outcome.type = "rejected" THEN "failed" ELSE "done"
        /\ UNCHANGED <<promptVars, screen, fsVars, calls, displaced>>

NextPrompt ==
    \/ PromptEnter
    \/ Next
    \/ \E outcome \in {NoValue, Rejected("callback"), Rejected("readdir"),
                        Rejected("Unsupported option type")} : CallbackSettles(outcome)

SpecPrompt == InitPrompt /\ [][NextPrompt]_vars

\* ================================================================ claims

\* C1. Window invariant (checked under SpecWindow): for every itemCount >= 0 and
\* every currentIndex with 0 <= currentIndex < max(itemCount, 1), getVisibleRange
\* with maxVisible = 10 returns 0 <= start <= currentIndex < end <= itemCount when
\* itemCount > 0, end - start <= maxVisible, showTop = (start > 0) and
\* showBottom = (end < itemCount); for itemCount = 0 it returns start = end = 0
\* with both indicators false.
C1_WindowInvariant ==
    pc = "windowed" =>
        LET n == Len(option.choices)
        IN  /\ n > 0 => /\ 0 <= screen.start
                        /\ screen.start <= currentIndex
                        /\ currentIndex < screen.end
                        /\ screen.end <= n
            /\ screen.end - screen.start <= MAX_VISIBLE_ITEMS
            /\ screen.showTop = (screen.start > 0)
            /\ screen.showBottom = (screen.end < n)
            /\ n = 0 => /\ screen.start = 0
                        /\ screen.end = 0
                        /\ ~screen.showTop
                        /\ ~screen.showBottom

\* a list longer than the window, drawn with the cursor on its last entry
C1_Witness ==
    /\ pc = "windowed"
    /\ Len(option.choices) = 12
    /\ currentIndex = 11
    /\ screen.start = 2
    /\ screen.end = 12
    /\ screen.showTop

\* the indices of a Set in ascending numeric order
RECURSIVE Ascending(_)
Ascending(indices) ==
    IF indices = {} THEN <<>>
    ELSE LET m == CHOOSE x \in indices : \A y \in indices : x <= y
         IN  <<m>> \o Ascending(indices \ {m})

\* C2. For every choice list of any length (lists of more than 10 entries
\* included) and every sequence of cursor moves and toggles, the multi-select
\* prompt resolves on confirm with the labels of the selected indices in
\* ascending numeric index order.
C2_AscendingIndexOrder ==
    (pc = "idle" /\ option.type = "checkbox" /\ result.type = "array"
                 /\ option.choices # <<>>) =>
        LET order == Ascending({selectedItems[i] : i \in 1..Len(selectedItems)})
        IN  result.value = [i \in 1..Len(order) |-> option.choices[order[i] + 1]]

\* C3, as claimed. While a prompt is in flight exactly one key handler is
\* subscribed at every instant, the error pause of the create-folder flow included.
C3_ExactlyOneHandler ==
    pc \in {"prompt", "naming", "pause"} => Len(io.listeners) = 1

\* C3, amended. At most one key handler is subscribed at every instant; exactly
\* one, that of the state machine awaiting keys, whenever a prompt awaits a key
\* (the browser's while browsing, the nested text prompt's while naming); during
\* the error pause of the create-folder flow none is subscribed.
C3_AtMostOneHandler ==
    /\ Len(io.listeners) <= 1
    /\ pc = "prompt" => io.listeners = <<HandlerOf(option.type)>>
    /\ pc = "naming" => io.listeners = <<"input">>
    /\ pc = "pause" => io.listeners = <<>>
    /\ io.keyPressHandler = (IF io.listeners = <<>> THEN "none" ELSE io.listeners[1])

\* the nested folder-name prompt awaits keys: the browser's handler is detached
C3_Witness ==
    /\ pc = "naming"
    /\ option.type = "directory"
    /\ io.listeners = <<"input">>
    /\ input # <<>>

\* C4. A failing directory listing during a directory prompt is caught where it
\* happens and reported: it never leaves run() as an exception and never ends
\* the session.
C4_ListingFailureCaught ==
    /\ pc # "crashed"
    /\ result.type = "rejected" => result.error # "readdir"

\* C5. makeTemplate never overwrites an existing file (checked under SpecUtil):
\* whenever a file is at join(dir, file_name) when makeTemplate is called, the
\* call reports an error, writes nothing, and leaves every file, that one
\* included, with the content it had.
C5_NoClobberFile ==
    \A i \in 1..Len(calls) :
        LET c == calls[i]
        IN  (c.op = "makeTemplate"
             /\ Canon(PathJoin(c.dir, c.name)) \in DOMAIN c.filesBefore) =>
                /\ ~c.threw
                /\ c.logged # "none"
                /\ c.filesAfter = c.filesBefore
                /\ c.dirsAfter = c.dirsBefore

\* makeTemplate was called on an existing file with other content than it holds
C5_Witness ==
    \E i \in 1..Len(calls) :
        /\ calls[i].op = "makeTemplate"
        /\ calls[i].dir = <<".">>
        /\ calls[i].name = <<"f">>
        /\ << <<"f">> >> \in DOMAIN calls[i].filesBefore
        /\ calls[i].filesBefore[<< <<"f">> >>] # calls[i].code
        /\ calls[i].logged = "[Snpy-Error] File already exists"
        /\ files[<< <<"f">> >>] = <<"a">>

\* C6. No-clobber law of makeFolder (checked under SpecUtil): of two calls
\* makeFolder(parent, name) in a row with the same arguments, the first finding
\* nothing at the target, the first creates the directory and returns
\* join(parent, name); the second reports the already-exists error and returns
\* false without throwing, and leaves the directory tree as the first call left it.
C6_NoClobberFolder ==
    \A i \in 1..(Len(calls) - 1) :
        LET first  == calls[i]
            second == calls[i + 1]
        IN  (first.op = "makeFolder" /\ second.op = "makeFolder"
             /\ second.dir = first.dir /\ second.name = first.name
             /\ ~first.present) =>
                /\ ~first.threw
                /\ first.ret = StringValue(PathJoin(first.dir, first.name))
                /\ first.dirsAfter = first.dirsBefore
                                     \cup {Canon(PathJoin(first.dir, first.name))}
                /\ first.dirsAfter # first.dirsBefore
                /\ ~second.threw
                /\ second.ret = BooleanValue(FALSE)
                /\ second.logged = "[Snpy-Error] Folder already exists!"
                /\ second.dirsBefore = first.dirsAfter
                /\ second.dirsAfter = first.dirsAfter
                /\ second.filesAfter = first.filesAfter

\* makeFolder('a', 'a') was called twice where a/a did not exist
C6_Witness ==
    /\ Len(calls) >= 2
    /\ calls[1].op = "makeFolder" /\ calls[2].op = "makeFolder"
    /\ calls[1].dir = <<"a">> /\ calls[1].name = <<"a">>
    /\ calls[2].dir = <<"a">> /\ calls[2].name = <<"a">>
    /\ ~calls[1].present
    /\ calls[1].ret = StringValue(<<"a", "/", "a">>)
    /\ calls[2].ret = BooleanValue(FALSE)
    /\ << <<"a">>, <<"a">> >> \in dirs

\* the browser of the directory prompt awaits a key
Browsing == pc = "prompt" /\ option.type = "directory"

\* the key event is the confirm key
Return == Key("return", <<"CR">>)

\* C7. Directory round-trip: with basePath '.', once the browser is in a
\* subdirectory of the base (entered, or created and entered), confirming the
\* go-up marker returns currentPath to exactly '.', the go-up marker is no longer
\* offered, and the cursor is on 'select this path', whose confirm resolves the
\* prompt with currentPath, that is with '.'.
C7_RoundTrip ==
    /\ [][(/\ Browsing
           /\ BasePath(option) = <<".">>
           /\ Len(Canon(currentPath)) = 1
           /\ At(GetChoices(dirs, option, currentPath), currentIndex) = SELECT_BACK_PATH
           /\ KeyDirectory(Return))
          => /\ currentPath' = <<".">>
             /\ pc' = "prompt"
             /\ ~Has(GetChoices(dirs', option', currentPath'), SELECT_BACK_PATH)
             /\ At(GetChoices(dirs', option', currentPath'), currentIndex')
                    = SELECT_THIS_PATH]_vars
    /\ [][(/\ Browsing
           /\ At(GetChoices(dirs, option, currentPath), currentIndex) = SELECT_THIS_PATH
           /\ KeyDirectory(Return))
          => /\ pc' = "idle"
             /\ result' = StringValue(currentPath)]_vars

\* the prompt started at '.', the directory a was created there and entered, and
\* the prompt resolved with '.'
C7_Witness ==
    /\ pc = "idle"
    /\ option.type = "directory"
    /\ option.basePath = StringValue(<<".">>)
    /\ << <<"a">> >> \in dirs
    /\ currentPath = <<".">>
    /\ result = StringValue(<<".">>)

\* a text prompt started by run awaits a key
Editing == pc = "prompt" /\ option.type = "input"

\* the default a text prompt is configured with, '' when there is none
ConfiguredDefault == IF option.default.type = "string" THEN option.default.value ELSE <<>>

\* C8. Text prompt result: a printable character is appended to the buffer, a
\* backspace removes the last remaining character (none from the empty buffer),
\* and confirm resolves with the buffer if it is non-empty and otherwise with
\* the configured default, or with the empty string when no default is given.
C8_TextResult ==
    /\ [][\A c \in TypedChars("input", FALSE) :
              (Editing /\ KeyInput(CharKey(c))) => input' = Append(input, c)]_vars
    /\ [][(Editing /\ KeyInput(Key("backspace", <<"DEL">>)))
              => /\ input # <<>> => input' = SubSeq(input, 1, Len(input) - 1)
                 /\ input = <<>> => input' = <<>>]_vars
    /\ [][(Editing /\ KeyInput(Return))
              => /\ pc' = "idle"
                 /\ input # <<>> => result' = StringValue(input)
                 /\ input = <<>> => result' = StringValue(ConfiguredDefault)]_vars

\* a text prompt with default 'c' resolved with what was typed, in order
C8_Witness ==
    /\ pc = "idle"
    /\ option.type = "input"
    /\ option.default = StringValue(<<"c">>)
    /\ input = <<"b", "a">>
    /\ result = StringValue(<<"b", "a">>)

\* a confirm prompt awaits a key
Confirming == pc = "prompt" /\ option.type = "confirm"

\* the effective default of the confirm prompt
EffectiveDefault == option.default.type = "none" \/ option.default.value

\* C9. Confirm prompt result: the effective default is true when the default is
\* absent or true and false when it is false; confirm resolves true exactly when
\* the buffer if non-empty, else the default letter, lowercased, is 'y'; a typed
\* Y, y, N or n is held in lower case; the hint shown is 'Y/n' exactly when the
\* effective default is true, else 'y/N'.
C9_ConfirmResult ==
    /\ [](Confirming => screen.hint = (IF EffectiveDefault THEN "Y/n" ELSE "y/N"))
    /\ [][\A c \in {"y", "n", "Y", "N"} :
              (Confirming /\ KeyConfirm(CharKey(c)))
                  => input' = <<(IF c \in {"y", "Y"} THEN "y" ELSE "n")>>]_vars
    /\ [][(Confirming /\ KeyConfirm(Return))
              => /\ pc' = "idle"
                 /\ result' = BooleanValue(IF input # <<>> THEN input = <<"y">>
                                           ELSE EffectiveDefault)]_vars

\* default true, an N or n typed: the prompt resolved false
C9_Witness ==
    /\ pc = "idle"
    /\ option.type = "confirm"
    /\ option.default = BooleanValue(TRUE)
    /\ input = <<"n">>
    /\ result = BooleanValue(FALSE)

\* the choice list a list-like prompt shows in the current state
CurrentChoices ==
    IF option.type = "directory" THEN GetChoices(dirs, option, currentPath)
    ELSE option.choices

\* a list-like prompt awaits a key
Choosing ==
    pc = "prompt" /\ option.type \in {"list", "nlist", "checkbox", "directory"}

\* the cursor after the handler's down branch ran k times on a list of n entries
RECURSIVE DownTimes(_, _, _)
DownTimes(k, idx, n) == IF k = 0 THEN idx ELSE DownTimes(k - 1, MoveDown(idx, n), n)

Down == Key("down", <<>>)

\* C10. Wraparound idempotence: in the single-select, numbered-select,
\* multi-select and directory-browser prompts (the filesystem unchanging), a down
\* key moves the cursor to the next index, or from the last index to 0, and leaves
\* the choice list as it is; so pressing down exactly itemCount times from any
\* cursor index returns the cursor to that index, for itemCount >= 1.
C10_Wraparound ==
    /\ [][(/\ Choosing
           /\ Len(CurrentChoices) >= 1
           /\ KeySelectable(Down) \/ KeyCheckbox(Down) \/ KeyDirectory(Down))
          => /\ currentIndex' = (currentIndex + 1) % Len(CurrentChoices)
             /\ CurrentChoices' = CurrentChoices
             /\ Choosing']_vars
    /\ []((Choosing /\ Len(CurrentChoices) >= 1)
          => /\ currentIndex \in 0..(Len(CurrentChoices) - 1)
             /\ DownTimes(Len(CurrentChoices), currentIndex, Len(CurrentChoices))
                    = currentIndex)

\* the browser's cursor is on the last entry of a list of four: the next down wraps
C10_Witness ==
    /\ Choosing
    /\ option.type = "directory"
    /\ Len(CurrentChoices) = 4
    /\ currentIndex = 3

\* ---------------------------------------------------------------- C11

\* the browser's handler is the one subscribed and the browser awaits keys
BrowsingAgain ==
    /\ pc = "prompt"
    /\ option.type = "directory"
    /\ io.keyPressHandler = "directory"
    /\ io.listeners = <<"directory">>

\* C11. Once the nested folder-name prompt of the create-folder flow has
\* resolved, the browsing key handler is eventually subscribed again, whatever
\* the outcome: at once for an empty name and for a created directory, after the
\* error pause when the target exists or the creation fails (checked under
\* SpecLive, where the timer of the pause fires).
C11_HandlerReinstalled ==
    /\ [][(pc = "naming" /\ pc' \notin {"naming", "exited"})
            => (pc' = "pause" \/ BrowsingAgain')]_vars
    /\ (pc = "pause" ~> BrowsingAgain)

\* the creation failed in the read-only directory r: the pause is on and no
\* handler is subscribed
C11_Witness ==
    /\ pc = "pause"
    /\ screen = LogError("Failed to create folder!")
    /\ currentPath = <<"r">>
    /\ io.listeners = <<>>

\* ---------------------------------------------------------------- C12

\* C12. Snpy.prompt closes the input stream exactly once on every path by which
\* the callback finishes (checked under SpecPrompt): when it returns, when it
\* throws, and when the unsupported-kind error of run leaves it; the stream is
\* not closed before, and in the failing cases an error reaches the caller of
\* prompt, the error of run being the one that propagates when the callback
\* lets it go on.
C12_CleanupOnEveryPath ==
    /\ [][(pc = "idle" /\ pc' \in {"done", "failed"})
            => /\ io.closed = 0 /\ io'.closed = 1
               /\ pc' = "failed" <=> result'.type = "rejected"
               /\ (result.type # "rejected" /\ pc' = "failed")
                      => result' = Rejected("callback")
               /\ (result.type = "rejected" /\ pc' = "failed")
                      => result' \in {result, Rejected("callback")}]_vars
    /\ [](pc \in {"done", "failed"} <=> io.closed = 1)
    /\ [](io.closed <= 1)

\* the unsupported-kind error of run has left prompt after the stream was closed
C12_Witness ==
    /\ pc = "failed"
    /\ option.type = "unknown"
    /\ result = Rejected("Unsupported option type")
    /\ io.closed = 1

\* ---------------------------------------------------------------- C13

\* the six kinds run dispatches on
RecognizedKinds == {"list", "nlist", "checkbox", "confirm", "input", "directory"}

\* C13. run with a kind outside the six recognized kinds fails at once with an
\* error handed to the caller: no prompt state machine starts (nothing awaits a
\* key, nothing is drawn), no key handler is subscribed and no value is
\* returned; a prompt in flight always has a recognized kind.
C13_UnsupportedKindFails ==
    /\ [][(pc = "idle" /\ option'.type \notin RecognizedKinds)
            => /\ pc' = "idle"
               /\ result' = Rejected("Unsupported option type")
               /\ io'.listeners = <<>>
               /\ io'.keyPressHandler = "none"
               /\ screen' = screen
               /\ UNCHANGED fsVars]_vars
    /\ [](pc \in {"prompt", "naming", "pause"} => option.type \in RecognizedKinds)

\* run was called with an unknown kind after a list prompt had resolved
C13_Witness ==
    /\ pc = "idle"
    /\ option.type = "unknown"
    /\ result = Rejected("Unsupported option type")
    /\ screen = Cleared

\* ---------------------------------------------------------------- C14

\* the kinds read key by key
RawKinds == {"list", "nlist", "checkbox", "directory"}

\* C14. For every recognized kind, run has set the terminal mode when the
\* state machine starts (raw mode on for list, nlist, checkbox and directory,
\* off for input and confirm), and every resolution of every prompt leaves the
\* screen cleared when the value reaches the caller.
C14_ModeThenClear ==
    /\ [][(pc = "idle" /\ option'.type \in RecognizedKinds)
            => /\ io'.rawMode = (option'.type \in RawKinds)
               /\ io'.hideInput = (option'.type \in RawKinds)]_vars
    /\ [][(pc = "prompt" /\ pc' = "idle")
            => /\ screen' = Cleared
               /\ result'.type \in {"string", "boolean", "array"}]_vars

\* a text prompt resolved in line mode and left the screen cleared
C14_Witness ==
    /\ pc = "idle"
    /\ option.type = "input"
    /\ result.type = "string"
    /\ result.value # <<>>
    /\ io.rawMode = FALSE
    /\ screen = Cleared

\* ---------------------------------------------------------------- C15

\* the value has the type run's signature gives the kind
TypedFor(kind, value) ==
    IF kind \in {"input", "list", "nlist", "directory"}
        THEN value.type = "string" /\ value.value # Undefined
    ELSE IF kind = "confirm"
        THEN value.type = "boolean" /\ value.value \in BOOLEAN
    ELSE /\ kind = "checkbox"
         /\ value.type = "array"
         /\ \A i \in 1..Len(value.value) : value.value[i] # Undefined

\* C15. Every prompt yields exactly one typed result: once a prompt has
\* resolved no key handler is subscribed, so that nothing but the next run call
\* changes the state (no key event moves the prompt or resolves it again), and
\* the value has the type of the kind: a string for input, list, nlist and
\* directory, a boolean for confirm, a sequence of strings for checkbox.
C15_OneTypedResult ==
    /\ [](pc = "idle" => io.listeners = <<>> /\ io.keyPressHandler = "none")
    /\ [][pc = "idle" => \E opt \in Options : Run(opt)]_vars
    /\ []((pc = "idle" /\ result.type \notin {"none", "rejected"})
            => TypedFor(option.type, result))

\* a multi-select prompt resolved with two labels and left no handler behind
C15_Witness ==
    /\ pc = "idle"
    /\ option.type = "checkbox"
    /\ result.type = "array"
    /\ Len(result.value) = 2
    /\ io.listeners = <<>>

\* ---------------------------------------------------------------- C16

\* the names of the directories immediately below currentPath
Subdirectories ==
    LET c == Canon(currentPath)
    IN  {d[Len(d)] : d \in {e \in dirs : Len(e) = Len(c) + 1 /\ SubSeq(e, 1, Len(c)) = c}}

\* C16. In every browsing state of the directory prompt the choice list is the
\* select-this-path marker, then the go-up marker if and only if currentPath
\* differs (as a string) from basePath, then the names of the immediate
\* subdirectories of currentPath, each once, in the order of the listing; the
\* select-this-path marker is at index 0 and the list drawn is this list.
C16_ChoiceList ==
    Browsing =>
        LET choices == GetChoices(dirs, option, currentPath)
            back    == currentPath # (IF option.basePath.type = "string"
                                          /\ option.basePath.value # <<>>
                                      THEN option.basePath.value ELSE <<".">>)
            first   == IF back THEN 3 ELSE 2
            names   == SubSeq(choices, first, Len(choices))
        IN  /\ At(choices, 0) = SELECT_THIS_PATH
            /\ back => At(choices, 1) = SELECT_BACK_PATH
            /\ Len(choices) = first - 1 + Cardinality(Subdirectories)
            /\ {names[i] : i \in 1..Len(names)} = Subdirectories
            /\ names = GetDirectories(dirs, currentPath)
            /\ screen = Render(choices, currentIndex)

\* browsing b below the base '.', with the directory a created there: both
\* markers and two names are offered
C16_Witness ==
    /\ Browsing
    /\ option.basePath = StringValue(<<".">>)
    /\ currentPath = <<"b">>
    /\ GetChoices(dirs, option, currentPath)
           = <<SELECT_THIS_PATH, SELECT_BACK_PATH, SELECT_THIS_PATH, <<"a">> >>
    /\ currentIndex = 1

\* ---------------------------------------------------------------- C17

\* a single-select or numbered-select prompt awaits a key
Selecting == pc = "prompt" /\ option.type \in {"list", "nlist"}

\* the step is the handling of the key named by the single-select prompt
SelectKey(name) ==
    /\ Selecting
    /\ KeySelectable(Key(name, IF name = "return" THEN <<"CR">> ELSE <<>>))

SetOf(seq) == {seq[i] : i \in 1..Len(seq)}

\* the orders in which the elements of a set may have been inserted
RECURSIVE Insertions(_)
Insertions(set) ==
    IF set = {} THEN {<<>>}
    ELSE UNION {{Append(p, x) : p \in Insertions(set \ {x})} : x \in set}

\* C18. The multi-select result depends only on the final selection set: every
\* order of toggles that leaves the same set of indices selected resolves with
\* the same sequence, which holds exactly the labels of those indices, each
\* once; an index is in the set at most once and toggling the same index twice
\* gives the previous set back.
C18_SelectionSetOnly ==
    /\ (pc = "idle" /\ option.type = "checkbox" /\ result.type = "array") =>
           LET set   == SetOf(selectedItems)
               label == [i \in set |-> OrEmpty(At(option.choices, i))]
           IN  /\ \A p \in Insertions(set) :
                      result.value = SelectedChoices(option.choices, p)
               /\ Len(result.value) = Cardinality(set)
               /\ SetOf(result.value) = {label[i] : i \in set}
    /\ (pc = "prompt" /\ option.type = "checkbox") =>
           /\ Len(selectedItems) = Cardinality(SetOf(selectedItems))
           /\ SetOf(Toggle(Toggle(selectedItems, currentIndex), currentIndex))
                  = SetOf(selectedItems)
           /\ SetOf(Toggle(selectedItems, currentIndex))
                  = (SetOf(selectedItems) \ {currentIndex})
                    \cup ({currentIndex} \ SetOf(selectedItems))

\* the third entry was toggled before the first: the result lists the first
\* before the third
C18_Witness ==
    /\ pc = "idle"
    /\ option.type = "checkbox"
    /\ selectedItems = <<2, 0>>
    /\ result = ArrayValue(<< <<"a">>, <<"c">> >>)

\* ------------------------------------------------------- C19 and C20

\* the nested folder-name prompt is answered in this step
NameGiven == pc = "naming" /\ pc' \notin {"naming", "exited"}

\* the place the name given stands for
Target == Canon(PathJoin(currentPath, input))

\* the name is empty, something is at the target already, or no entry can be
\* made in the directory that would hold it
CreationFails ==
    \/ input = <<>>
    \/ Target = <<>>
    \/ IsDir(dirs, Target)
    \/ Target \in DOMAIN files
    \/ ~IsDir(dirs, SubSeq(Target, 1, Len(Target) - 1))
    \/ SubSeq(Target, 1, Len(Target) - 1) \in LockedDirs \cup ReadOnlyDirs
    \/ \E k \in 0..(Len(Target) - 1) : SubSeq(Target, 1, k) \in LockedDirs

\* the frame of the create-folder flow
SamePlace ==
    /\ currentPath' = currentPath
    /\ currentIndex' = currentIndex
    /\ dirs' = dirs
    /\ files' = files
    /\ result' = result

\* C19. In the create-folder flow, when the name is empty, when something
\* exists at currentPath/name or when the creation fails otherwise, browsing
\* resumes (at once for the empty name, after the error pause otherwise) with
\* currentPath and the cursor as they were when the flow began, nothing is
\* created, and no exception leaves the prompt.
C19_FailedCreationResumes ==
    /\ [][((Browsing /\ pc' = "naming") \/ (pc = "naming" /\ pc' = "naming"))
            => SamePlace]_vars
    /\ [][(NameGiven /\ CreationFails)
            => /\ SamePlace
               /\ pc' = (IF input = <<>> THEN "prompt" ELSE "pause")
               /\ pc' = "prompt"
                      => /\ BrowsingAgain'
                         /\ screen' = Render(GetChoices(dirs, option, currentPath),
                                              currentIndex)]_vars
    /\ [][pc = "pause"
            => /\ SamePlace
               /\ BrowsingAgain'
               /\ io'.rawMode
               /\ screen' = Render(GetChoices(dirs, option, currentPath),
                                    currentIndex)]_vars

\* the name given exists already: the pause is on with the cursor on b
C19_Witness ==
    /\ pc = "pause"
    /\ screen = LogError("Folder already exists!")
    /\ currentPath = <<".">>
    /\ currentIndex = 1
    /\ dirs = InitialDirs

\* C20. In the create-folder flow, when the name is not empty, nothing exists
\* at currentPath/name and the creation succeeds, the directory is created,
\* currentPath becomes the joined path currentPath/name, the cursor is at 0 and
\* browsing resumes in the new directory, which offers the two markers.
C20_CreatedAndEntered ==
    [][(NameGiven /\ ~CreationFails)
        => /\ Target \notin dirs
           /\ dirs' = dirs \cup {Target}
           /\ files' = files
           /\ currentPath' = PathJoin(currentPath, input)
           /\ Canon(currentPath') = Canon(currentPath) \o <<input>>
           /\ currentIndex' = 0
           /\ BrowsingAgain'
           /\ io'.rawMode
           /\ screen' = Render(<<SELECT_THIS_PATH, SELECT_BACK_PATH>>, 0)]_vars

\* the directory a was created in b and is the one browsed
C20_Witness ==
    /\ Browsing
    /\ currentPath = <<"b", "/", "a">>
    /\ Canon(currentPath) \in dirs \ InitialDirs
    /\ currentIndex = 0
    /\ mkdirs = 1
    /\ GetChoices(dirs, option, currentPath) = <<SELECT_THIS_PATH, SELECT_BACK_PATH>>

\* ---------------------------------------------------------------- C21

BackspaceKey == Key("backspace", <<"DEL">>)

\* the base the directory prompt was configured with, '.' when there is none
ConfiguredBase ==
    IF option.basePath.type = "string" /\ option.basePath.value # <<>>
        THEN option.basePath.value
    ELSE <<".">>

\* the cursor is on the go-up marker
OnBackMarker ==
    At(GetChoices(dirs, option, currentPath), currentIndex) = SELECT_BACK_PATH

\* C21. In the directory browser, whenever currentPath differs from basePath
\* backspace does to (currentPath, cursor) what confirming the go-up marker
\* does: currentPath becomes its parent (path.dirname, the directory above
\* whenever currentPath names a directory below the working directory) and the
\* cursor becomes 0, the two keys giving the very same step when the cursor is on
\* the marker; when currentPath equals basePath, backspace changes nothing
\* (every backspace that changes the state is pressed away from the base).
C21_BackspaceIsGoUp ==
    /\ [][(Browsing /\ KeyDirectory(BackspaceKey))
            => /\ currentPath # ConfiguredBase
               /\ currentPath' = Dirname(currentPath)
               /\ currentIndex' = 0
               /\ Canon(currentPath) # <<>>
                      => Canon(currentPath')
                            = SubSeq(Canon(currentPath), 1, Len(Canon(currentPath)) - 1)
               /\ OnBackMarker => KeyDirectory(Return)]_vars
    /\ [][(Browsing /\ OnBackMarker /\ KeyDirectory(Return))
            => /\ currentPath # ConfiguredBase
               /\ currentPath' = Dirname(currentPath)
               /\ currentIndex' = 0
               /\ KeyDirectory(BackspaceKey)]_vars

\* browsing b below the base with the cursor on the last entry
C21_Witness ==
    /\ Browsing
    /\ option.basePath = NoValue
    /\ currentPath = <<"b">>
    /\ currentIndex = 2
    /\ dirs = InitialDirs

\* ---------------------------------------------------------------- C22

\* the window is as full as the list allows
FullWindow(r, itemCount, maxVisible) ==
    /\ itemCount >= maxVisible => r.end - r.start = maxVisible
    /\ itemCount <= maxVisible
          => (r.start = 0 /\ r.end = itemCount /\ ~r.showTop /\ ~r.showBottom)

\* C22. The window is always as full as possible (checked under SpecWindow):
\* when itemCount >= maxVisible it has exactly maxVisible entries for every
\* cursor position, and when itemCount <= maxVisible it is the whole list
\* (start = 0, end = itemCount) with showTop and showBottom both false; so for
\* the window drawn (maxVisible = 10) and for every maxVisible from 1 on.
C22_WindowFull ==
    /\ pc = "windowed"
          => FullWindow(screen, Len(option.choices), MAX_VISIBLE_ITEMS)
    /\ pc \in {"window", "windowed"}
          => \A maxVisible \in 1..MaxItems :
                FullWindow(GetVisibleRange(option.choices, currentIndex, maxVisible),
                           Len(option.choices), maxVisible)

\* twelve entries with the cursor near the end: the window is pulled back to
\* hold ten of them
C22_Witness ==
    /\ pc = "windowed"
    /\ Len(option.choices) = 12
    /\ currentIndex = 9
    /\ screen.start = 2
    /\ screen.end = 12
    /\ ~screen.showBottom

\* ---------------------------------------------------------------- C23

\* C23. makeFolder is non-fatal on I/O failure (checked under SpecUtil): when
\* nothing is at the target and the directory cannot be created (the parent is
\* missing or may not be written to), makeFolder reports the error and returns
\* to its caller without throwing, and no directory is created.
C23_MakeFolderNonFatal ==
    /\ pc # "thrown"
    /\ \A i \in 1..Len(calls) :
           LET c == calls[i]
           IN  (c.op = "makeFolder" /\ ~c.present /\ c.dirsAfter = c.dirsBefore) =>
                  /\ ~c.threw
                  /\ c.logged # "none"

\* ---------------------------------------------------------------- C24

\* C24. makeTemplate is non-fatal on write failure (checked under SpecUtil): it
\* never throws; when existsSync finds nothing at the target and the write
\* fails, it reports the failure through the error log, returns, and leaves
\* every file as it was; when the write succeeds, the file at
\* join(dir, file_name) holds exactly the code given and no other file changed.
C24_MakeTemplateNonFatal ==
    \A i \in 1..Len(calls) :
        LET c      == calls[i]
            target == Canon(PathJoin(c.dir, c.name))
            parent == SubSeq(target, 1, Len(target) - 1)
            fails  == \/ target = <<>>
                      \/ c.name[Len(c.name)] = "/"
                      \/ IsDir(c.dirsBefore, target)
                      \/ ~IsDir(c.dirsBefore, parent)
                      \/ parent \in LockedDirs \cup ReadOnlyDirs
        IN  c.op = "makeTemplate" =>
               /\ ~c.threw
               /\ c.dirsAfter = c.dirsBefore
               /\ (~ExistsSync(c.dirsBefore, c.filesBefore, PathJoin(c.dir, c.name))
                      /\ fails)
                     => /\ c.logged = "[Snpy-Error] Failed to write file"
                        /\ c.filesAfter = c.filesBefore
               /\ (~ExistsSync(c.dirsBefore, c.filesBefore, PathJoin(c.dir, c.name))
                      /\ ~fails)
                     => /\ c.logged = "none"
                        /\ target \in DOMAIN c.filesAfter
                        /\ c.filesAfter[target] = c.code
                        /\ \A f \in DOMAIN c.filesBefore :
                               f # target => /\ f \in DOMAIN c.filesAfter
                                             /\ c.filesAfter[f] = c.filesBefore[f]
                        /\ DOMAIN c.filesAfter = DOMAIN c.filesBefore \cup {target}

\* one write failed in a directory that is missing and was reported, the next
\* put the code given into a new file of the working directory
C24_Witness ==
    /\ pc = "util"
    /\ Len(calls) = 2
    /\ calls[1].op = "makeTemplate"
    /\ calls[1].dir = <<"a">>
    /\ calls[1].dirsBefore = {}
    /\ calls[1].logged = "[Snpy-Error] Failed to write file"
    /\ calls[2].op = "makeTemplate"
    /\ calls[2].dir = <<".">>
    /\ calls[2].name = <<"f">>
    /\ calls[2].logged = "none"
    /\ files[<< <<"f">> >>] = calls[2].code

\* ---------------------------------------------------------------- C25

\* the process runs and the input stream holds a key handler
HasHandler == pc \notin {"crashed", "exited"} /\ io.listeners # <<>>

\* everything but the position of the session
AllButPc == <<promptVars, io, screen, result, fsVars, calls, displaced>>

\* C25. In every state of every prompt with a subscribed key handler, ctrl+c
\* ends the whole process before the prompt's own handler sees the key: the
\* step is possible, it changes nothing of the prompt's state and delivers no
\* result, and nothing happens after it.
C25_CtrlCExits ==
    /\ [](HasHandler => ENABLED (KeyCtrlC /\ pc' = "exited" /\ UNCHANGED AllButPc))
    /\ [][pc' = "exited" => (HasHandler /\ UNCHANGED AllButPc)]_vars
    /\ [][pc # "exited"]_vars

\* ctrl+c ended the process in a multi-select prompt with entries selected:
\* the caller was given nothing
C25_Witness ==
    /\ pc = "exited"
    /\ option.type = "checkbox"
    /\ Len(selectedItems) = 2
    /\ result = NoValue
    /\ io.listeners = <<"checkbox">>

\* ---------------------------------------------------------------- C26

\* the index of the first subdirectory name in the choice list
FirstName == IF currentPath # ConfiguredBase THEN 2 ELSE 1

\* the cursor is on a subdirectory name the listing returned
OnSubdirectory ==
    /\ currentIndex >= FirstName
    /\ currentIndex < Len(GetChoices(dirs, option, currentPath))

\* C26. In the directory browser, confirm on an entry that is a subdirectory
\* name returned by the listing, whatever its text, does not resolve the
\* prompt: currentPath becomes currentPath joined with the name and the cursor
\* becomes 0; only confirm on the select-this-path marker at index 0 resolves
\* the prompt, with currentPath.
C26_OnlyMarkerResolves ==
    /\ [][(Browsing /\ OnSubdirectory /\ KeyDirectory(Return))
            => /\ pc' # "idle"
               /\ result' = result
               /\ currentPath' = PathJoin(currentPath,
                                    At(GetDirectories(dirs, currentPath),
                                       currentIndex - FirstName))
               /\ currentIndex' = 0]_vars
    /\ [][(Browsing /\ pc' = "idle")
            => (currentIndex = 0 /\ result' = StringValue(currentPath))]_vars

\* ---------------------------------------------------------------- C27

\* C27. Terminal-mode ownership across the nested folder-name prompt: raw mode
\* is off for the whole time the nested text prompt awaits keys, and raw mode is
\* on whenever the browsing key handler is subscribed, in particular when it is
\* subscribed again after each outcome of the flow (empty name, already exists,
\* creation failure, success).
C27_ModeOwnership ==
    /\ [](pc = "naming" => (~io.rawMode /\ ~io.hideInput
                             /\ io.listeners = <<"input">>))
    /\ []((option.type = "directory" /\ io.listeners = <<"directory">>)
            => (io.rawMode /\ io.hideInput))
    /\ [][((pc = "naming" \/ pc = "pause") /\ pc' = "prompt")
            => (io'.listeners = <<"directory">> /\ io'.rawMode /\ io'.hideInput)]_vars

\* browsing the directory just created, in raw mode again
C27_Witness ==
    /\ Browsing
    /\ mkdirs = 1
    /\ currentPath = <<"a">>
    /\ io.listeners = <<"directory">>
    /\ io.rawMode
    /\ io.hideInput

\* ---------------------------------------------------------------- C28

\* C28. In the directory browser every change of currentPath after which
\* browsing goes on (a subdirectory entered, the go-up marker, backspace, a
\* directory created) leaves the cursor at index 0, on the select-this-path
\* marker; a confirm with the cursor at 0 resolves with currentPath, so that a
\* confirm right after a change of path resolves with the new path; the prompt
\* starts at basePath, or at '.' when basePath is absent or empty, with the
\* cursor at 0, so that a confirm as the first key resolves with that.
C28_CursorOnMarker ==
    /\ [][(option.type = "directory" /\ pc \in {"prompt", "naming"}
              /\ pc' = "prompt" /\ currentPath' # currentPath)
            => /\ currentIndex' = 0
               /\ At(GetChoices(dirs', option', currentPath'), 0) = SELECT_THIS_PATH]_vars
    /\ [][(Browsing /\ currentIndex = 0 /\ KeyDirectory(Return))
            => /\ pc' = "idle"
               /\ result' = StringValue(currentPath)
               /\ currentPath' = currentPath]_vars
    /\ [][(pc = "idle" /\ option'.type = "directory" /\ pc' = "prompt")
            => /\ currentIndex' = 0
               /\ currentPath' = (IF option'.basePath.type = "string"
                                      /\ option'.basePath.value # <<>>
                                   THEN option'.basePath.value ELSE <<".">>)]_vars

\* confirm as the first key of a prompt whose basePath is the empty string
\* resolved with '.'
C28_Witness ==
    /\ pc = "idle"
    /\ option.type = "directory"
    /\ option.basePath = StringValue(<<>>)
    /\ result = StringValue(<<".">>)

\* ---------------------------------------------------------------- C29

UpKey == Key("up", <<>>)

\* C29. Resolution is always reachable and prompt.  In every state in which a
\* prompt awaits a key, the confirm key reaches the prompt's handler.  In the
\* text, confirm, single-select, numbered-select and multi-select prompts the
\* first confirm key resolves the prompt from every reachable state, with a
\* value of the prompt's type.  In every reachable browsing state of the
\* directory prompt currentPath can be listed, the cursor is on an entry, up
\* takes a cursor above 0 one entry nearer to 0 and confirm at 0 resolves: the
\* cursor's index in up keys and one confirm resolve the prompt, so that no
\* reachable state is a dead end.
C29_ResolutionReachable ==
    /\ [](pc = "prompt" => Delivered(HandlerOf(option.type), Return))
    /\ []((pc = "prompt" /\ option.type \in {"list", "nlist"})
            => ENABLED (KeySelectable(Return) /\ pc' = "idle"
                        /\ result'.type = "string"))
    /\ []((pc = "prompt" /\ option.type = "input")
            => ENABLED (KeyInput(Return) /\ pc' = "idle" /\ result'.type = "string"))
    /\ []((pc = "prompt" /\ option.type = "confirm")
            => ENABLED (KeyConfirm(Return) /\ pc' = "idle"
                        /\ result'.type = "boolean"))
    /\ []((pc = "prompt" /\ option.type = "checkbox"
              /\ Len(option.choices) <= Len(SmallChoices))
            => ENABLED (KeyCheckbox(Return) /\ pc' = "idle" /\ result'.type = "array"))
    /\ []((pc = "prompt" /\ option.type = "checkbox")
            => TypedFor("checkbox",
                        ArrayValue(SelectedChoices(option.choices, selectedItems))))
    /\ [][(pc = "prompt" /\ option.type # "directory"
              /\ \/ KeySelectable(Return) \/ KeyCheckbox(Return)
                 \/ KeyInput(Return) \/ KeyConfirm(Return))
            => (pc' = "idle" /\ TypedFor(option.type, result'))]_vars
    /\ [](Browsing
            => /\ ReaddirOk(dirs, currentPath)
               /\ currentIndex >= 0
               /\ currentIndex < Len(GetChoices(dirs, option, currentPath))
               /\ Delivered("directory", UpKey)
               /\ currentIndex > 0
                     => MoveUp(currentIndex, Len(GetChoices(dirs, option, currentPath)))
                           = currentIndex - 1)
    /\ []((Browsing /\ currentIndex = 0)
            => ENABLED (KeyDirectory(Return) /\ pc' = "idle"
                        /\ result' = StringValue(currentPath)))
    /\ [][(Browsing /\ KeyDirectory(UpKey) /\ currentIndex > 0)
            => (currentIndex' = currentIndex - 1 /\ pc' = "prompt"
                /\ currentPath' = currentPath /\ dirs' = dirs)]_vars

\* deep in the directory tree, after a failed creation, with the cursor three
\* entries below the marker: three up keys and a confirm resolve the prompt
C29_Witness ==
    /\ Browsing
    /\ currentPath = <<"b">>
    /\ option.basePath = StringValue(<<".">>)
    /\ currentIndex = 3
    /\ mkdirs = 1
    /\ io.listeners = <<"directory">>

\* ---------------------------------------------------------------- C30

\* a multi-select prompt is awaiting a key
Ticking == pc = "prompt" /\ option.type = "checkbox"

\* everything of the session but the cursor, the selection and the display
CheckboxFrame ==
    <<pc, option, defaultValue, input, hasInput, currentPath, io, result, dirs, files,
      mkdirs, calls, displaced>>

\* C30. Multi-select frame conditions.  The toggle key changes the membership
\* of exactly the cursor's index in the selection set: it leaves the cursor and
\* the membership of every other index unchanged.  Up and down change only the
\* cursor and leave the selection set unchanged.  No key but return changes
\* anything else than the cursor, the selection and the display.  With a
\* non-empty choice list the cursor is a valid index and the selection set is a
\* subset of the valid indices 0 .. length - 1.
C30_CheckboxFrame ==
    /\ [][(Ticking /\ KeyCheckbox(Key("space", <<" ">>)))
            => /\ currentIndex' = currentIndex
               /\ (currentIndex \in SetOf(selectedItems'))
                     # (currentIndex \in SetOf(selectedItems))
               /\ SetOf(selectedItems') \ {currentIndex}
                     = SetOf(selectedItems) \ {currentIndex}
               /\ Cardinality(SetOf(selectedItems')) = Len(selectedItems')
               /\ UNCHANGED CheckboxFrame]_vars
    /\ [][(Ticking /\ \E name \in {"up", "down"} : KeyCheckbox(Key(name, <<>>)))
            => /\ selectedItems' = selectedItems
               /\ UNCHANGED CheckboxFrame]_vars
    /\ [][(Ticking /\ KeyCheckbox(Key("up", <<>>)))
            => currentIndex' = MoveUp(currentIndex, Len(option.choices))]_vars
    /\ [][(Ticking /\ KeyCheckbox(Key("down", <<>>)))
            => currentIndex' = MoveDown(currentIndex, Len(option.choices))]_vars
    /\ []((Ticking /\ option.choices # <<>>)
            => /\ currentIndex \in 0..(Len(option.choices) - 1)
               /\ SetOf(selectedItems) \subseteq 0..(Len(option.choices) - 1))

\* two entries were selected, the later one first, one of them was unselected
\* again, and the cursor has moved on to an entry that is not selected
C30_Witness ==
    /\ Ticking
    /\ Len(option.choices) >= 3
    /\ selectedItems = <<2, 0>>
    /\ currentIndex = 1

\* ---------------------------------------------------------------- C31

\* the key is one the confirm prompt accepts into its buffer
Accepted(key) ==
    /\ key.str \in {<<"y">>, <<"n">>, <<"Y">>, <<"N">>}
    /\ ~key.ctrl
    /\ ~key.meta

\* C31. Confirm prompt alphabet.  A key event other than return and backspace
\* whose character is not y or n in either case, or that is a ctrl or meta
\* combination, leaves the buffer (and the prompt line) unchanged.  An accepted
\* y or n key replaces the buffer with its lower-case letter instead of
\* appending to it, and a backspace empties it, so the buffer never holds more
\* than one character: it holds the last accepted key as long as no backspace
\* followed that key.  Return resolves by the buffer: true exactly when the
\* last accepted key, not removed by a backspace since, is y, and by the
\* default when there is no such key.
C31_ConfirmAlphabet ==
    /\ [](Confirming => input \in {<<>>, <<"y">>, <<"n">>})
    /\ [](Confirming => (hasInput <=> input # <<>>))
    /\ [][\A key \in KeysFor("confirm", FALSE) :
              (Confirming /\ KeyConfirm(key))
                  => IF key.name = "return"
                         THEN /\ pc' = "idle"
                              /\ input' = input
                              /\ result' = BooleanValue(IF input = <<>>
                                                            THEN defaultValue = <<"Y">>
                                                        ELSE input = <<"y">>)
                     ELSE IF key.name = "backspace"
                         THEN input' = <<>> /\ pc' = pc
                     ELSE IF Accepted(key)
                         THEN input' = ToLowerCase(key.str) /\ pc' = pc
                     ELSE UNCHANGED <<input, hasInput, screen, pc>>]_vars

\* default false, and the one character of the buffer, an accepted y, decided
\* the result against the default
C31_Witness ==
    /\ pc = "idle"
    /\ option.type = "confirm"
    /\ option.default = BooleanValue(FALSE)
    /\ input = <<"y">>
    /\ hasInput
    /\ result = BooleanValue(TRUE)

\* ---------------------------------------------------------------- C32

\* C32. In the directory browser, at every key event the cursor is a valid
\* index of the choice list recomputed from the filesystem at that event,
\* 0 <= currentIndex < length, also when another process adds or removes
\* subdirectories of currentPath between key events; a return key therefore
\* always acts on an existing entry of the current list and never ends the
\* session.
C32_CursorValidOnSharedFs ==
    /\ []((Browsing /\ ReaddirOk(dirs, currentPath))
            => /\ currentIndex >= 0
               /\ currentIndex < Len(GetChoices(dirs, option, currentPath)))
    /\ [][(Browsing /\ ReaddirOk(dirs, currentPath) /\ KeyDirectory(Return))
            => /\ At(GetChoices(dirs, option, currentPath), currentIndex) # Undefined
               /\ pc' = "crashed" => ~ReaddirOk(dirs, currentPath')]_vars

\* ---------------------------------------------------------------- C33

\* the directory named by path is the one named by base or lies below it
Within(base, path) ==
    /\ Len(Canon(path)) >= Len(Canon(base))
    /\ SubSeq(Canon(path), 1, Len(Canon(base))) = Canon(base)

\* C33. Base-path containment.  For every basePath string, the normalized ones
\* ('.', 'b') as well as those that path.join would rewrite ('./b'), and every
\* sequence of browsing keys, currentPath is at all times the base directory or
\* a directory below it: neither the go-up marker nor backspace moves the
\* browser above the base directory, and the path the prompt resolves with is
\* the base directory or a descendant of it.
C33_BasePathContainment ==
    /\ []((pc \in {"prompt", "naming", "pause"} /\ option.type = "directory")
            => Within(BasePath(option), currentPath))
    /\ []((pc = "idle" /\ option.type = "directory" /\ result.type = "string")
            => Within(BasePath(option), result.value))

\* ---------------------------------------------------------------- C34

\* the clamp reference for the window of itemCount entries around the cursor
ClampStart(itemCount, idx, maxVisible) ==
    Min(Max(0, idx - (maxVisible \div 2)), Max(0, itemCount - maxVisible))

ClampEnd(itemCount, idx, maxVisible) ==
    Min(itemCount, ClampStart(itemCount, idx, maxVisible) + maxVisible)

\* the window equals the clamp reference
IsClamp(r, itemCount, idx, maxVisible) ==
    /\ r.start = ClampStart(itemCount, idx, maxVisible)
    /\ r.end = ClampEnd(itemCount, idx, maxVisible)

\* C34. Scroll continuity (checked under SpecWindow).  For itemCount >= 1 and a
\* valid cursor getVisibleRange equals the clamp reference
\* start = min(max(0, currentIndex - floor(maxVisible / 2)),
\* max(0, itemCount - maxVisible)), end = min(itemCount, start + maxVisible),
\* for the window drawn (maxVisible = 10) and for every maxVisible from 1 on;
\* consequently the window of the cursor that a single up or down key which
\* does not wrap moves to starts at most one position from the window drawn.
C34_ScrollContinuity ==
    LET n == Len(option.choices)
    IN  (pc \in {"window", "windowed"} /\ n >= 1 /\ currentIndex \in 0..(n - 1))
            => /\ pc = "windowed" => IsClamp(screen, n, currentIndex, MAX_VISIBLE_ITEMS)
               /\ \A maxVisible \in 1..MaxItems :
                     /\ IsClamp(GetVisibleRange(option.choices, currentIndex, maxVisible),
                                n, currentIndex, maxVisible)
                     /\ \A to \in {MoveUp(currentIndex, n), MoveDown(currentIndex, n)} :
                           (to = currentIndex - 1 \/ to = currentIndex + 1)
                              => GetVisibleRange(option.choices, to, maxVisible).start
                                   - GetVisibleRange(option.choices, currentIndex,
                                                     maxVisible).start
                                 \in {-1, 0, 1}

\* twelve entries drawn with the cursor on the seventh: the window starts one
\* entry down, where the clamp reference puts it, neither at the head nor at
\* the tail of the list
C34_Witness ==
    /\ pc = "windowed"
    /\ Len(option.choices) = 12
    /\ currentIndex = 6
    /\ screen.start = 1
    /\ screen.end = 11
    /\ screen.showTop
    /\ screen.showBottom

\* ---------------------------------------------------------------- C35

\* C35. Every render of a list-like prompt (single-select, numbered-select,
\* multi-select, directory browser), the first one and the one after any key
\* sequence, draws exactly one highlighted entry, and that entry is the one at
\* the cursor index; so for every choice list the prompt accepts, the list of
\* no entries included.
C35_OneHighlighted ==
    Choosing => (screen.tag = "list" /\ screen.highlighted = {currentIndex})

\* ---------------------------------------------------------------- C36

\* C36. Subscription discipline of the terminal port.  After any sequence of
\* onKeyPress and removeKeyPressHandler calls made by the prompts at most one
\* key handler is subscribed on the input stream.  A prompt that resolves
\* leaves none subscribed and none remembered by the port, none is subscribed
\* for as long as the session waits for its next run call, and the prompt that
\* starts then subscribes its own handler and no other.
C36_SubscriptionDiscipline ==
    /\ [](Len(io.listeners) <= 1)
    /\ [](pc = "idle" => (io.listeners = <<>> /\ io.keyPressHandler = "none"))
    /\ [][(pc # "idle" /\ pc' = "idle")
            => (result'.type \notin {"none", "rejected"} /\ io'.listeners = <<>>)]_vars
    /\ [][(pc = "idle" /\ pc' = "prompt")
            => io'.listeners = <<HandlerOf(option'.type)>>]_vars

\* a multi-select prompt resolved with two labels: its handler is gone from the
\* input stream and from the port
C36_Witness ==
    /\ pc = "idle"
    /\ option.type = "checkbox"
    /\ result.type = "array"
    /\ Len(result.value) = 2
    /\ io.listeners = <<>>
    /\ io.keyPressHandler = "none"

\* ---------------------------------------------------------------- C38

\* C38. A run call rejected for an unrecognized prompt kind leaves the session
\* as it found it: the raw/line mode flag of the terminal, the key-handler
\* subscription and the screen are all unchanged by the failed call.
C38_RejectedRunChangesNothing ==
    [][\A opt \in Options :
          (opt.type \notin RecognizedKinds /\ Run(opt))
              => /\ result' = Rejected("Unsupported option type")
                 /\ io'.rawMode = io.rawMode
                 /\ io'.listeners = io.listeners
                 /\ io'.keyPressHandler = io.keyPressHandler
                 /\ screen' = screen]_vars

\* ---------------------------------------------------------------- C37

\* C37. Overlapping run calls on one session (checked under SpecOverlap).  When
\* a second run is started before the first prompt has resolved, installing the
\* second prompt's handler detaches the first prompt's handler: the stream
\* holds the second prompt's handler and no other, so that no key event is
\* processed by two prompts.  From then on the first prompt's state is never
\* changed again, it never gets keys again and its promise never resolves.
C37_OverlappingRuns ==
    /\ [](Len(io.listeners) <= 1)
    /\ [][\A opt \in OverlapOptions :
              RunOver(opt) => /\ io'.listeners = <<HandlerOf(opt.type)>>
                              /\ displaced' = InFlight]_vars
    /\ [][displaced # NoPrompt => displaced' = displaced]_vars
    /\ []((displaced # NoPrompt /\ pc = "prompt")
            => (option # displaced.option
                /\ io.listeners = <<HandlerOf(option.type)>>))

====
